---- MODULE Spec2Model ----
(***************************************************************************)
(* Verification model of the KubeCore platform-context function:          *)
(*   - the per-kind circuit breakers of the transitive discovery engine    *)
(*     and the List calls of transitive and reverse discovery (SpecBreaker)*)
(*   - the forward resolver's BFS walk (SpecWalk)                          *)
(*   - one query: provided references, reverse discovery, chain traversal  *)
(*     and the merge into schema blocks (SpecQuery)                        *)
(* Each specification drives its own group of variables and leaves the     *)
(* other groups at their initial values.                                   *)
(***************************************************************************)
EXTENDS Integers, Sequences, FiniteSets, TLC

VARIABLES
    \* ---- circuit breakers and discovery List calls ----
    now,                \* time.time(), in ticks
    state,              \* CircuitBreaker.state per kind
    failure_count,      \* CircuitBreaker.failure_count per kind
    last_failure_time,  \* CircuitBreaker.last_failure_time per kind
    taskPc,             \* per engine task: "idle" | "listing"
    taskKind,           \* the kind a listing task is listing
    taskTrial,          \* history: the List was issued with the breaker half-open
    lastCall,           \* history: the most recent search call and what it did
    hConsec,            \* history: consecutive recorded failures per kind
    hTripped,           \* history: threshold reached, cooldown not yet elapsed
    hLastFail,          \* history: time of the last recorded failure per kind
    \* ---- forward resolver walk ----
    relationships,      \* cluster: the refs _extract_relationships finds in each body
    max_depth,          \* ResolutionContext.max_depth
    max_resources,      \* ResolutionContext.max_resources
    cache,              \* ResourceCache._cache: refs holding an unexpired entry
    pending_refs,       \* the BFS deque
    resolved_resources, \* keys of the result dictionary
    visited,            \* ResolutionContext.visited
    resolution_path,    \* ResolutionContext.resolution_path
    resolved_count,     \* ResolutionContext.resolved_count
    pcW,                \* "idle" | "loop" | "get" | "done" | "failed"
    current_ref,        \* the ref whose Get is in flight
    getCount,           \* history: Gets issued per ref in this walk
    reattempted,        \* history: refs popped again after a failed attempt
    \* ---- one query ----
    resources,          \* cluster: spec reference fields of every listed resource
    listing,            \* cluster: the order in which List returns each kind's items
    requestor,          \* context.requestorName with query.resourceType
    providedRefs,       \* context.references["XGitHubProviderRefs"]
    requiresReverseDiscovery,   \* context.requiresReverseDiscovery (with hints)
    enableTransitiveDiscovery,  \* context.enableTransitiveDiscovery
    config_max_depth,   \* TransitiveDiscoveryConfig.max_depth
    transitiveMaxDepth, \* context["transitiveMaxDepth"]
    qpc,                \* position in process_query
    availableSchemas,   \* platform_context["availableSchemas"]
    chain_index,        \* position in the loop over relationship_chains (1-based)
    hop_index,          \* enumerate(ref_chain) index (0-based, as in the code)
    target_index,       \* position in the loop over current_resources (1-based)
    current_resources,  \* _traverse_relationship_chain.current_resources
    next_resources,     \* _find_next_hop_resources.next_resources
    relationship_path,  \* _traverse_relationship_chain.relationship_path
    discovered_resources,   \* discover_transitive_relationships.discovered_resources
    intermediate_cache, \* TransitiveDiscoveryEngine._intermediate_cache
    startedChains,      \* history: chains (by index) whose traversal began
    abandonedChains,    \* history: chains that returned [] from a hop
    earlyBreak,         \* history: the early-termination break was taken
    completedHits,      \* history: <<schema type, name>> of every hit a chain returned
    \* ---- K8sClient ----
    connected,          \* K8sClient._connected
    last_health_check,  \* K8sClient._last_health_check
    clock,              \* time.time(), in ticks
    reqPc,              \* per request: "idle" | "health" | "connecting" | "attempt" |
                        \*   "called" | "sleeping" | "done"
    reqOp,              \* "get" | "list"
    connectFrom,        \* the connect() in flight was called from: "ensure" | "retry"
    current_time,       \* _ensure_connected's current_time
    attempt,            \* _retry_request's loop variable
    apiCalls,           \* history: calls of the cluster API made for the request
    sleeps,             \* history: backoff sleeps of the request
    delays,             \* history: the delay of each of these sleeps, in order
    lastAnswer,         \* outcome of the request's latest attempt
    surfaced,           \* what the caller of get_resource / list_resources got
    \* ---- ResourceResolver._semaphore ----
    semaphore_value,    \* free slots of ResourceResolver._semaphore
    parallel_value,     \* free slots of resolve_parallel's semaphore
    wPc,                \* per task: "idle" | "queued" | "resolve" | "get" |
                        \*   "skipped" | "fetched"
    wOrigin,            \* "bfs" | "parallel"
    \* ---- ContextCache ----
    context_cache,      \* ContextCache.cache: key -> CacheEntry
    cache_order,        \* the keys in dict (insertion) order
    rcClock,            \* time.time(), in ticks
    rcLast,             \* history: the latest operation and what it returned
    lastPut,            \* history: per key, data and time of its latest set
    dropped,            \* history: keys evicted or cleared since their latest set
    \* ---- ContextCache.generate_key ----
    keyInput,           \* the query the key is computed for
    procSeed,           \* per process: its hash seed
    keyOut,             \* per process: the keys it computed, in order
    \* ---- QueryProcessor._process_transitive_schema ----
    merge_block,        \* platform_context["availableSchemas"][schema_type]
    merge_hits,         \* transitive_resources
    merge_pc,           \* "start" | "merged"
    merge_before,       \* history: the block before the merge
    \* ---- ResponseGenerator ----
    resp_type,          \* query["resourceType"]
    resp_context,       \* the platform context process_query is building
    resp_pc,            \* "forward" | "reverse" | "transitive" | "generated" | "validated"
    response,           \* what generate_response returned
    resp_valid,         \* what validate_response_format returned
    \* ---- TransitiveDiscoveryEngine performance counters ----
    total_api_calls,    \* _total_api_calls
    failed_api_calls,   \* _failed_api_calls
    health_pending,     \* kind of the search awaiting list_resources, or "none"
    stats_reset,        \* history: no call was counted since the last reset
    \* ---- TransitiveDiscoveryEngine intermediate cache ----
    inter_cache,        \* _intermediate_cache: cache key -> resources
    cache_timestamps,   \* _cache_timestamps, its (key, time) items in dict order
    inter_clock,        \* time.time()
    inter_last,         \* history: the last operation and what it removed
    \* ---- a pure function applied to an input ----
    eval_in,            \* the arguments
    eval_out,           \* the value returned
    eval_pc             \* "idle" | "start" | "done"

breakerVars == <<now, state, failure_count, last_failure_time, taskPc, taskKind,
                 taskTrial, lastCall, hConsec, hTripped, hLastFail>>

walkVars == <<relationships, max_depth, max_resources, cache, pending_refs,
              resolved_resources, visited, resolution_path, resolved_count, pcW,
              current_ref, getCount, reattempted>>

queryVars == <<resources, listing, requestor, providedRefs, transitiveMaxDepth,
              requiresReverseDiscovery,
               enableTransitiveDiscovery, config_max_depth, qpc, availableSchemas,
               chain_index, hop_index, target_index, current_resources,
               next_resources, relationship_path, discovered_resources,
               intermediate_cache, startedChains, abandonedChains, earlyBreak,
               completedHits>>

clientVars == <<connected, last_health_check, clock, reqPc, reqOp, connectFrom,
                current_time, attempt, apiCalls, sleeps, delays, lastAnswer,
                surfaced>>

gateVars == <<semaphore_value, parallel_value, wPc, wOrigin>>

rcVars == <<context_cache, cache_order, rcClock, rcLast, lastPut, dropped>>

coreVars == <<breakerVars, walkVars, queryVars, clientVars, gateVars, rcVars>>

keyVars == <<keyInput, procSeed, keyOut>>

mergeVars == <<merge_block, merge_hits, merge_pc, merge_before>>

respVars == <<resp_type, resp_context, resp_pc, response, resp_valid>>

healthVars == <<total_api_calls, failed_api_calls, health_pending, stats_reset>>

interVars == <<inter_cache, cache_timestamps, inter_clock, inter_last>>

evalVars == <<eval_in, eval_out, eval_pc>>

lateVars == <<interVars, evalVars>>

extraVars == <<keyVars, mergeVars, respVars, healthVars, lateVars>>

vars == <<coreVars, extraVars>>

(***************************************************************************)
(* Forward resolver: ResourceResolver.resolve_with_relationships           *)
(***************************************************************************)

\* the ResourceRefs of the modelled cluster
WalkRefs == {"app", "ghapp", "project", "cluster"}

\* ResourceRef.kind of each
WalkKind == [r \in WalkRefs |->
               CASE r = "app" -> "XApp"
                 [] r = "ghapp" -> "XGitHubApp"
                 [] r = "project" -> "XGitHubProject"
                 [] OTHER -> "XKubeCluster"]

\* RESOURCE_RELATIONSHIPS: the kinds each kind has a typed relationship to
RESOURCE_RELATIONSHIPS(kind) ==
    CASE kind = "XGitHubProvider" -> {"XGitHubProject"}
      [] kind = "XGitHubProject" -> {"XGitHubProvider", "XKubeCluster", "XGitHubApp"}
      [] kind = "XKubeNet" -> {"XKubeCluster"}
      [] kind = "XKubeCluster" -> {"XGitHubProject", "XKubeNet", "XKubeSystem", "XKubEnv"}
      [] kind = "XKubeSystem" -> {"XKubeCluster"}
      [] kind = "XKubEnv" -> {"XKubeCluster", "XQualityGate"}
      [] kind = "XQualityGate" -> {"XKubEnv", "XApp"}
      [] kind = "XGitHubApp" -> {"XGitHubProject", "XApp"}
      [] kind = "XApp" -> {"XGitHubProject", "XGitHubApp", "XKubEnv"}
      [] OTHER -> {}

\* _get_relationship_type is not None (every type is in the default
\* relationship_types set)
get_relationship_type(from, to) == WalkKind[to] \in RESOURCE_RELATIONSHIPS(WalkKind[from])

\* the bodies the cluster may hold: the reference lists found in each
RelOptions(r) ==
    CASE r = "app" -> {<<"project">>, <<"project", "ghapp">>, <<"ghapp", "cluster">>}
      [] r = "ghapp" -> {<<>>, <<"project">>, <<"app">>}
      [] r = "project" -> {<<>>, <<"cluster">>, <<"cluster", "ghapp">>}
      [] OTHER -> {<<>>, <<"project">>}

\* the seed of the walk
Seed == "app"

\* largest max_depth explored
MaxDepthBound == 2

\* largest max_resources explored
MaxResourcesBound == 4

Range(f) == {f[i] : i \in DOMAIN f}

\* refs within n reference edges of the seed
RECURSIVE Within(_)
Within(n) ==
    IF n = 0 THEN {Seed}
    ELSE Within(n - 1) \cup UNION {Range(relationships[r]) : r \in Within(n - 1)}

\* the loop body's "for rel_ref in resolved.relationships" (lines 276-281)
Enqueue(pend, res, from) ==
    pend \o SelectSeq(relationships[from],
                      LAMBDA x : x \notin res /\ x \notin Range(pend)
                                 /\ get_relationship_type(from, x))

\* resolve_resource's circular-dependency check (lines 170-175)
NoVisitedCheck(r) == FALSE

InVisited(r) == r \in visited

WalkIdle ==
    /\ relationships = [r \in WalkRefs |-> <<>>]
    /\ max_depth = 0
    /\ max_resources = 0
    /\ cache = {}
    /\ pending_refs = <<>>
    /\ resolved_resources = {}
    /\ visited = {}
    /\ resolution_path = <<>>
    /\ resolved_count = 0
    /\ pcW = "idle"
    /\ current_ref = "none"
    /\ getCount = [r \in WalkRefs |-> 0]
    /\ reattempted = {}

\* resolve_with_relationships up to the loop: a fresh context, the seed queued
WalkStart ==
    /\ relationships \in {f \in [WalkRefs -> UNION {RelOptions(r) : r \in WalkRefs}] :
                            \A r \in WalkRefs : f[r] \in RelOptions(r)}
    /\ max_depth \in 0..MaxDepthBound
    /\ max_resources \in 1..MaxResourcesBound
    /\ cache \in SUBSET {"app", "project", "ghapp"}
    /\ pending_refs = <<Seed>>
    /\ resolved_resources = {}
    /\ visited = {}
    /\ resolution_path = <<>>
    /\ resolved_count = 0
    /\ pcW = "loop"
    /\ current_ref = "none"
    /\ getCount = [r \in WalkRefs |-> 0]
    /\ reattempted = {}

LoopGuard == pcW = "loop" /\ pending_refs # <<>> /\ resolved_count < max_resources

walkConst == <<relationships, max_depth, max_resources>>

\* the path when a check of lines 171-186 raises with the path first appended to
AppendBeforeChecks(path, ref) == Append(path, ref)

\* the path when a check of lines 171-186 raises: the checks come before the
\* append of line 190 and outside the try whose finally pops
PathOnRaise(path, ref) == path

\* resolve_resource lines 165-168: a cache hit returns before any check or count
WalkCacheHit ==
    /\ LoopGuard
    /\ Head(pending_refs) \notin resolved_resources
    /\ Head(pending_refs) \in cache
    /\ resolved_resources' = resolved_resources \cup {Head(pending_refs)}
    /\ pending_refs' = Enqueue(Tail(pending_refs), resolved_resources', Head(pending_refs))
    /\ UNCHANGED <<breakerVars, queryVars, clientVars, gateVars, rcVars, extraVars>>
    /\ UNCHANGED <<walkConst, cache, visited, resolution_path, resolved_count, pcW,
                   current_ref, getCount, reattempted>>

\* resolve_resource lines 171-175: the ref was attempted before and is neither
\* resolved nor cached: CircularDependencyError, caught by the loop (283-286).
\* Line 267, the skip of an already resolved ref, is folded in here: the queue
\* never holds a resolved ref, because line 277 queues a ref only when it is
\* neither resolved nor queued and a ref is resolved only when it is popped.
WalkCircular ==
    /\ LoopGuard
    /\ IF Head(pending_refs) \in resolved_resources
       THEN /\ reattempted' = reattempted
            /\ resolution_path' = resolution_path
       ELSE /\ Head(pending_refs) \notin cache
            /\ InVisited(Head(pending_refs))
            /\ reattempted' = reattempted \cup {Head(pending_refs)}
            /\ resolution_path' = PathOnRaise(resolution_path, Head(pending_refs))
    /\ pending_refs' = Tail(pending_refs)
    /\ UNCHANGED <<breakerVars, queryVars, clientVars, gateVars, rcVars, extraVars>>
    /\ UNCHANGED <<walkConst, cache, resolved_resources, visited,
                   resolved_count, pcW, current_ref, getCount>>

\* resolve_resource lines 178-186: a limit is exceeded, ResourceResolutionError
WalkLimit ==
    /\ LoopGuard
    /\ Head(pending_refs) \notin resolved_resources
    /\ Head(pending_refs) \notin cache
    /\ ~InVisited(Head(pending_refs))
    /\ \/ Len(resolution_path) >= max_depth
       \/ resolved_count >= max_resources
    /\ pending_refs' = Tail(pending_refs)
    /\ resolution_path' = PathOnRaise(resolution_path, Head(pending_refs))
    /\ UNCHANGED <<breakerVars, queryVars, clientVars, gateVars, rcVars, extraVars>>
    /\ UNCHANGED <<walkConst, cache, resolved_resources, visited,
                   resolved_count, pcW, current_ref, getCount, reattempted>>

\* resolve_resource lines 189-204: the ref is marked and its Get is issued
WalkGet ==
    /\ LoopGuard
    /\ Head(pending_refs) \notin resolved_resources
    /\ Head(pending_refs) \notin cache
    /\ ~InVisited(Head(pending_refs))
    /\ Len(resolution_path) < max_depth
    /\ resolved_count < max_resources
    /\ visited' = visited \cup {Head(pending_refs)}
    /\ resolution_path' = Append(resolution_path, Head(pending_refs))
    /\ resolved_count' = resolved_count + 1
    /\ current_ref' = Head(pending_refs)
    /\ pending_refs' = Tail(pending_refs)
    /\ getCount' = [getCount EXCEPT ![Head(pending_refs)] = @ + 1]
    /\ pcW' = "get"
    /\ UNCHANGED <<breakerVars, queryVars, clientVars, gateVars, rcVars, extraVars>>
    /\ UNCHANGED <<walkConst, cache, resolved_resources, reattempted>>

\* get_resource returned a body: lines 211-224, 228 and 273-281
GetOk ==
    /\ pcW = "get"
    /\ cache' = cache \cup {current_ref}
    /\ resolved_resources' = resolved_resources \cup {current_ref}
    /\ pending_refs' = Enqueue(pending_refs, resolved_resources', current_ref)
    /\ resolution_path' = SubSeq(resolution_path, 1, Len(resolution_path) - 1)
    /\ current_ref' = "none"
    /\ pcW' = "loop"
    /\ UNCHANGED <<breakerVars, queryVars, clientVars, gateVars, rcVars, extraVars>>
    /\ UNCHANGED <<walkConst, visited, resolved_count, getCount, reattempted>>

\* get_resource raised K8sResourceNotFoundError or K8sPermissionError: turned
\* into ResourceResolutionError (205-208), which the loop logs and skips (283-286)
GetRefused ==
    /\ pcW = "get"
    /\ resolution_path' = SubSeq(resolution_path, 1, Len(resolution_path) - 1)
    /\ current_ref' = "none"
    /\ pcW' = "loop"
    /\ UNCHANGED <<breakerVars, queryVars, clientVars, gateVars, rcVars, extraVars>>
    /\ UNCHANGED <<walkConst, cache, pending_refs, resolved_resources, visited,
                   resolved_count, getCount, reattempted>>

\* get_resource raised K8sConnectionError (retries exhausted): neither
\* resolve_resource nor the loop catches it, the walk ends with the exception
GetConnectionError ==
    /\ pcW = "get"
    /\ resolution_path' = SubSeq(resolution_path, 1, Len(resolution_path) - 1)
    /\ current_ref' = "none"
    /\ pcW' = "failed"
    /\ UNCHANGED <<breakerVars, queryVars, clientVars, gateVars, rcVars, extraVars>>
    /\ UNCHANGED <<walkConst, cache, pending_refs, resolved_resources, visited,
                   resolved_count, getCount, reattempted>>

\* line 263 is false: the result is returned
WalkReturn ==
    /\ pcW = "loop"
    /\ pending_refs = <<>> \/ resolved_count >= max_resources
    /\ pcW' = "done"
    /\ UNCHANGED <<breakerVars, queryVars, clientVars, gateVars, rcVars, extraVars>>
    /\ UNCHANGED <<walkConst, cache, pending_refs, resolved_resources, visited,
                   resolution_path, resolved_count, current_ref, getCount, reattempted>>

\* ResourceCache.get lines 90-93: an entry's age reached the TTL
CacheExpire ==
    /\ pcW \in {"loop", "get"}
    /\ \E r \in cache : cache' = cache \ {r}
    /\ UNCHANGED <<breakerVars, queryVars, clientVars, gateVars, rcVars, extraVars>>
    /\ UNCHANGED <<walkConst, pending_refs, resolved_resources, visited,
                   resolution_path, resolved_count, pcW, current_ref, getCount,
                   reattempted>>

NextWalk ==
    \/ WalkCacheHit
    \/ WalkCircular
    \/ WalkLimit
    \/ WalkGet
    \/ GetOk
    \/ GetRefused
    \/ GetConnectionError
    \/ WalkReturn
    \/ CacheExpire

(***************************************************************************)
(* One query: QueryProcessor.process_query with reverse discovery and the  *)
(* TransitiveDiscoveryEngine's chain traversal.  A name stands for a       *)
(* (name, namespace) pair: every comparison in the code compares both.     *)
(***************************************************************************)

\* the resources of the modelled cluster and the kind List returns them under
Listed == {"c1", "c2", "e1", "a1"}
Projects == {"p1"}
ListedKind(n) == CASE n \in {"c1", "c2"} -> "XKubeCluster"
                   [] n \in {"e1"} -> "XKubEnv"
                   [] OTHER -> "XApp"
NoRef == "none"

\* kinds the engine or reverse discovery may List
SearchKinds == {"XKubeCluster", "XGitHubApp", "XApp", "XQualityGate", "XKubEnv",
                "XKubeSystem"}

\* fields that hold a single object reference in a resource's spec
RefFields == {"githubProjectRef", "kubeClusterRef", "kubenvRef"}

\* config.max_resources_per_type, scaled down
MaxPerType == 2
\* largest number of provided XGitHubProvider references
MaxProvided == 3
\* values of context["transitiveMaxDepth"]
ContextDepths == {0, 2}
\* TransitiveDiscoveryConfig.max_depth default
DefaultMaxDepth == 3

Min(a, b) == IF a < b THEN a ELSE b

TRANSITIVE_RELATIONSHIP_CHAINS(resource_type) ==
    CASE resource_type = "XGitHubProject" ->
           << [target_kind |-> "XKubeCluster", ref_chain |-> <<"githubProjectRef">>],
              [target_kind |-> "XGitHubApp", ref_chain |-> <<"githubProjectRef">>],
              [target_kind |-> "XKubEnv",
               ref_chain |-> <<"githubProjectRef", "kubeClusterRef">>],
              [target_kind |-> "XKubeSystem",
               ref_chain |-> <<"githubProjectRef", "kubeClusterRef">>],
              [target_kind |-> "XApp",
               ref_chain |-> <<"githubProjectRef", "kubeClusterRef", "kubenvRef">>] >>
      [] resource_type = "XKubeCluster" ->
           << [target_kind |-> "XKubEnv", ref_chain |-> <<"kubeClusterRef">>],
              [target_kind |-> "XKubeSystem", ref_chain |-> <<"kubeClusterRef">>],
              [target_kind |-> "XApp", ref_chain |-> <<"kubeClusterRef", "kubenvRef">>] >>
      [] resource_type = "XKubEnv" ->
           << [target_kind |-> "XApp", ref_chain |-> <<"kubenvRef">>],
              [target_kind |-> "XQualityGate", ref_chain |-> <<"qualityGates">>] >>
      [] resource_type = "XApp" ->
           << [target_kind |-> "XKubEnv", ref_chain |-> <<"kubenvRef">>],
              [target_kind |-> "XGitHubApp", ref_chain |-> <<"githubProjectRef">>] >>
      [] OTHER -> << >>

get_search_configs_for_ref_field(ref_field) ==
    CASE ref_field = "githubProjectRef" ->
           <<"XKubeCluster", "XGitHubApp", "XApp", "XQualityGate">>
      [] ref_field = "kubeClusterRef" -> <<"XKubEnv", "XKubeSystem">>
      [] ref_field = "kubenvRef" -> <<"XApp">>
      [] ref_field = "qualityGates" -> <<"XKubEnv", "XApp">>
      [] OTHER -> << >>

kind_to_schema_type(kind) ==
    CASE kind = "XKubeCluster" -> "kubeCluster"
      [] kind = "XKubEnv" -> "kubEnv"
      [] kind = "XApp" -> "app"
      [] kind = "XGitHubApp" -> "githubApp"
      [] kind = "XQualityGate" -> "qualityGate"
      [] kind = "XKubeSystem" -> "kubeSystem"

\* _kind_to_ref_type followed by ref_type.replace("Refs", "")
kind_to_ref_type(kind) ==
    CASE kind = "XKubeCluster" -> "kubeCluster"
      [] kind = "XKubEnv" -> "kubEnv"
      [] kind = "XApp" -> "app"
      [] kind = "XGitHubApp" -> "githubApp"
      [] kind = "XQualityGate" -> "qualityGate"
      [] kind = "XKubeSystem" -> "kubeSystem"

reverse_discovery_map(resource_type) ==
    CASE resource_type = "XGitHubProject" ->
           << [kind |-> "XKubeCluster", ref_field |-> "githubProjectRef"],
              [kind |-> "XKubEnv", ref_field |-> "githubProjectRef"],
              [kind |-> "XApp", ref_field |-> "githubProjectRef"],
              [kind |-> "XGitHubApp", ref_field |-> "githubProjectRef"],
              [kind |-> "XQualityGate", ref_field |-> "githubProjectRef"] >>
      [] resource_type = "XKubeCluster" ->
           << [kind |-> "XKubeSystem", ref_field |-> "kubeClusterRef"],
              [kind |-> "XKubEnv", ref_field |-> "kubeClusterRef"] >>
      [] resource_type = "XKubeNet" ->
           << [kind |-> "XKubeCluster", ref_field |-> "kubeNetRef"] >>
      [] resource_type = "XQualityGate" ->
           << [kind |-> "XKubEnv", ref_field |-> "qualityGates"],
              [kind |-> "XApp", ref_field |-> "qualityGates"] >>
      [] OTHER -> << >>

\* keys of availableSchemas: the requested schema of a generic query and the
\* schema types of discovered kinds
SchemaTypes == {"XGitHubProvider", "XApp", "kubeCluster", "kubEnv", "app", "githubApp",
                "qualityGate", "kubeSystem"}
NoBlock == [discoveryMethod |-> "absent", instances |-> << >>]

\* _resource_references_target and _contains_reference_to (the same rule): an
\* object reference field names the target; an array field absent from the
\* spec matches nothing
resource_references_target(item, ref_field, target_name) ==
    /\ ref_field \in RefFields
    /\ resources[item][ref_field] = target_name

\* the items of a List that reference the target, in List order
Matching(kind, ref_field, target_name) ==
    SelectSeq(listing[kind],
              LAMBDA item : resource_references_target(item, ref_field, target_name))

\* _search_resources_with_ref once the List is decided: [] when the breaker
\* refuses or the List fails, else the matches up to max_resources_per_type
search_resources_with_ref(kind, ref_field, target_name, ok) ==
    IF ~ok THEN << >>
    ELSE LET m == Matching(kind, ref_field, target_name)
         IN  [i \in 1..Min(Len(m), MaxPerType) |-> [name |-> m[i], kind |-> kind]]

\* the loop of _find_resources_referencing over its search configs
RECURSIVE SearchEach(_, _, _, _)
SearchEach(configs, ref_field, target_name, failed) ==
    IF configs = << >> THEN << >>
    ELSE search_resources_with_ref(Head(configs), ref_field, target_name,
                                   Head(configs) \notin failed)
         \o SearchEach(Tail(configs), ref_field, target_name, failed)

\* _search_for_reverse_refs: every match of the List, [] when it fails
search_for_reverse_refs(kind, ref_field, target_name, ok) ==
    IF ~ok THEN << >> ELSE Matching(kind, ref_field, target_name)

\* _deduplicate_resources: first occurrence of each (name, namespace, kind)
RECURSIVE deduplicate_resources(_)
deduplicate_resources(hits) ==
    IF hits = << >> THEN << >>
    ELSE LET rest == deduplicate_resources(SubSeq(hits, 1, Len(hits) - 1))
             last == hits[Len(hits)]
         IN  IF \E i \in 1..Len(rest) :
                    rest[i].name = last.name /\ rest[i].kind = last.kind
             THEN rest ELSE Append(rest, last)

\* apiVersion each search config Lists a kind under
ApiVersionOf(kind) ==
    CASE kind = "XApp" -> "app.kubecore.io/v1alpha1"
      [] kind = "XGitHubApp" -> "github.platform.kubecore.io/v1alpha1"
      [] kind = "XGitHubProject" -> "github.platform.kubecore.io/v1alpha1"
      [] OTHER -> "platform.kubecore.io/v1alpha1"

\* names of the provided XGitHubProvider references, in the order given
ProviderNames == <<"pv1", "pv2", "pv3", "pv4">>

\* the query's inputs and the cluster, fixed during the query
queryInput == <<resources, listing, requestor, providedRefs, transitiveMaxDepth,
                requiresReverseDiscovery, enableTransitiveDiscovery,
                config_max_depth>>

\* history of the chain loop
queryHist == <<startedChains, abandonedChains, earlyBreak, completedHits>>

\* the engine's traversal state
traversal == <<hop_index, target_index, current_resources, next_resources,
               relationship_path>>

NoSpec == [f \in RefFields |-> NoRef]

\* the reference fields a resource of each kind may carry
AllowedSpec(n) ==
    LET k == ListedKind(n)
    IN  {[githubProjectRef |-> g, kubeClusterRef |-> c, kubenvRef |-> e] :
           g \in IF k = "XKubEnv" THEN {NoRef} ELSE Projects \cup {NoRef},
           c \in IF k = "XKubEnv" THEN {"c1", "c2", NoRef} ELSE {NoRef},
           e \in IF k = "XApp" THEN {"e1", NoRef} ELSE {NoRef}}

\* no query in progress, engine freshly constructed
QueryIdle ==
    /\ resources = [n \in Listed |-> NoSpec]
    /\ listing = [k \in SearchKinds |-> << >>]
    /\ requestor = [kind |-> "XGitHubProject", name |-> "p1"]
    /\ providedRefs = << >>
    /\ requiresReverseDiscovery = FALSE
    /\ enableTransitiveDiscovery = FALSE
    /\ config_max_depth = 3
    /\ transitiveMaxDepth = 3
    /\ qpc = "idle"
    /\ availableSchemas = [t \in SchemaTypes |-> NoBlock]
    /\ chain_index = 1
    /\ hop_index = 0
    /\ target_index = 1
    /\ current_resources = << >>
    /\ next_resources = << >>
    /\ relationship_path = << >>
    /\ discovered_resources = [t \in SchemaTypes |-> << >>]
    /\ intermediate_cache = << >>
    /\ startedChains = {}
    /\ abandonedChains = {}
    /\ earlyBreak = FALSE
    /\ completedHits = {}

\* a query arrives: any cluster over the modelled resources, any List order
QueryStart ==
    /\ resources \in [Listed -> UNION {AllowedSpec(n) : n \in Listed}]
    /\ \A n \in Listed : resources[n] \in AllowedSpec(n)
    /\ listing \in [SearchKinds -> {<<"c1", "c2">>, <<"c2", "c1">>, <<"e1">>,
                                    <<"a1">>, << >>}]
    /\ \A k \in SearchKinds :
         /\ \A i \in 1..Len(listing[k]) : ListedKind(listing[k][i]) = k
         /\ \A n \in Listed : ListedKind(n) = k => \E i \in 1..Len(listing[k]) : listing[k][i] = n
    /\ requestor \in {[kind |-> "XGitHubProject", name |-> "p1"],
                      [kind |-> "XKubeCluster", name |-> "c1"]}
    /\ \/ \E n \in {0, MaxProvided} : providedRefs = SubSeq(ProviderNames, 1, n)
       \/ providedRefs = <<ProviderNames[1], ProviderNames[1]>>
    /\ requiresReverseDiscovery \in BOOLEAN
    /\ enableTransitiveDiscovery \in BOOLEAN
    /\ config_max_depth \in 1..DefaultMaxDepth
    /\ transitiveMaxDepth \in ContextDepths
    /\ qpc = "start"
    /\ availableSchemas = [t \in SchemaTypes |-> NoBlock]
    /\ chain_index = 1
    /\ hop_index = 0
    /\ target_index = 1
    /\ current_resources = << >>
    /\ next_resources = << >>
    /\ relationship_path = << >>
    /\ discovered_resources = [t \in SchemaTypes |-> << >>]
    /\ intermediate_cache = << >>
    /\ startedChains = {}
    /\ abandonedChains = {}
    /\ earlyBreak = FALSE
    /\ completedHits = {}

\* instances of a block built from a list of names
Instances(names, how) == [i \in 1..Len(names) |-> [name |-> names[i], discoveredBy |-> how]]

\* _map_requested_to_actual_schema: the kind a schema name stands for
map_requested_to_actual_schema(requested_name) ==
    CASE requested_name = "kubEnv" -> "XKubEnv"
      [] requested_name = "kubeCluster" -> "XKubeCluster"
      [] requested_name = "kubeSystem" -> "XKubeSystem"
      [] requested_name = "kubeNet" -> "XKubeNet"
      [] requested_name = "qualityGate" -> "XQualityGate"
      [] requested_name = "githubProject" -> "XGitHubProject"
      [] requested_name = "githubProvider" -> "XGitHubProvider"
      [] requested_name = "githubApp" -> "XGitHubApp"
      [] requested_name = "app" -> "XApp"
      [] OTHER -> requested_name

\* query["requestedSchemas"]: a schema accessible to both requestor kinds and
\* one accessible to neither
requestedSchemas == <<"XGitHubProvider", "XApp">>

\* context["references"][schema_type + "Refs"]
ReferencesFor(schema_type) ==
    IF schema_type = "XGitHubProvider" THEN providedRefs ELSE <<"a1">>

\* a registry in which every kind may see every other
all_schemas(resource_type) ==
    {"XGitHubProvider", "XApp", "XKubeCluster", "XKubEnv", "XGitHubApp", "XQualityGate",
     "XKubeSystem", "XGitHubProject", "XKubeNet"}

\* SchemaRegistry.get_accessible_schemas: PLATFORM_HIERARCHY[resource_type]
get_accessible_schemas(resource_type) ==
    CASE resource_type = "XApp" ->
             {"XKubEnv", "XQualityGate", "XGitHubProject", "XGitHubApp", "XKubeCluster",
              "XKubeNet", "XKubeSystem"}
      [] resource_type = "XKubeSystem" ->
             {"XKubeCluster", "XKubEnv", "XGitHubProject", "XKubeNet", "XGitHubProvider"}
      [] resource_type = "XKubEnv" ->
             {"XKubeCluster", "XQualityGate", "XGitHubProject", "XKubeNet"}
      [] resource_type = "XKubeCluster" -> {"XGitHubProject", "XKubeNet", "XGitHubProvider"}
      [] resource_type = "XGitHubProject" -> {"XGitHubProvider"}
      [] resource_type = "XGitHubApp" -> {"XGitHubProject", "XGitHubProvider"}
      [] OTHER -> {}

\* _process_generic_query: one block per requested schema that is accessible
\* to the requestor's kind, built from the provided references
ProcessGenericQuery ==
    /\ qpc = "start"
    /\ LET target_schemas == {requestedSchemas[i] : i \in 1..Len(requestedSchemas)}
                                \cap get_accessible_schemas(requestor.kind)
       IN  availableSchemas' =
             [t \in SchemaTypes |->
                IF t \in target_schemas
                THEN [discoveryMethod |-> "unset",
                      instances |-> Instances(ReferencesFor(t), "generic")]
                ELSE availableSchemas[t]]
    /\ qpc' = "reverse"
    /\ UNCHANGED <<queryInput, traversal, chain_index, discovered_resources,
                   intermediate_cache,
                   breakerVars, walkVars, clientVars, gateVars, rcVars, extraVars>>
    /\ UNCHANGED queryHist

\* _perform_reverse_discovery with hints.targetRef = the requestor: one List per
\* entry of the reverse map, none behind a breaker; every kind with a match
\* gets its block replaced (_process_discovered_schema)
PerformReverseDiscovery ==
    /\ qpc = "reverse"
    /\ requiresReverseDiscovery
    /\ LET search_configs == reverse_discovery_map(requestor.kind)
       IN  \E failed \in SUBSET {search_configs[i].kind : i \in 1..Len(search_configs)} :
             LET refs(i) == search_for_reverse_refs(search_configs[i].kind,
                                search_configs[i].ref_field, requestor.name,
                                search_configs[i].kind \notin failed)
                 Found(t) == {i \in 1..Len(search_configs) :
                                /\ kind_to_ref_type(search_configs[i].kind) = t
                                /\ refs(i) # << >>}
             IN  availableSchemas' =
                   [t \in SchemaTypes |->
                      IF Found(t) = {} THEN availableSchemas[t]
                      ELSE [discoveryMethod |-> "reverse",
                            instances |-> Instances(refs(CHOOSE i \in Found(t) : TRUE),
                                                    "reverse")]]
    /\ qpc' = "transitive"
    /\ UNCHANGED <<queryInput, traversal, chain_index, discovered_resources,
                   intermediate_cache,
                   breakerVars, walkVars, clientVars, gateVars, rcVars, extraVars>>
    /\ UNCHANGED queryHist

SkipReverseDiscovery ==
    /\ qpc = "reverse"
    /\ ~requiresReverseDiscovery
    /\ qpc' = "transitive"
    /\ UNCHANGED <<queryInput, availableSchemas, traversal, chain_index,
                   discovered_resources, intermediate_cache,
                   breakerVars, walkVars, clientVars, gateVars, rcVars, extraVars>>
    /\ UNCHANGED queryHist

SkipTransitiveDiscovery ==
    /\ qpc = "transitive"
    /\ ~enableTransitiveDiscovery
    /\ qpc' = "done"
    /\ UNCHANGED <<queryInput, availableSchemas, traversal, chain_index,
                   discovered_resources, intermediate_cache,
                   breakerVars, walkVars, clientVars, gateVars, rcVars, extraVars>>
    /\ UNCHANGED queryHist

\* discover_transitive_relationships up to its loop over the chains
StartTransitiveDiscovery ==
    /\ qpc = "transitive"
    /\ enableTransitiveDiscovery
    /\ chain_index' = 1
    /\ discovered_resources' = [t \in SchemaTypes |-> << >>]
    /\ qpc' = "chains"
    /\ UNCHANGED <<queryInput, availableSchemas, traversal, intermediate_cache,
                   breakerVars, walkVars, clientVars, gateVars, rcVars, extraVars>>
    /\ UNCHANGED queryHist

Chains == TRANSITIVE_RELATIONSHIP_CHAINS(requestor.kind)
CurrentChain == Chains[chain_index]
SourceRef == [name |-> requestor.name, kind |-> requestor.kind]

\* len(discovered_resources) and the total over its values
DiscoveredTypes == {t \in SchemaTypes : discovered_resources[t] # << >>}
RECURSIVE SumLen(_)
SumLen(ts) == IF ts = {} THEN 0
              ELSE LET t == CHOOSE x \in ts : TRUE
                   IN  Len(discovered_resources[t]) + SumLen(ts \ {t})
EarlyTerminate ==
    /\ DiscoveredTypes # {}
    /\ SumLen(DiscoveredTypes) >= MaxPerType * Cardinality(DiscoveredTypes)

traversalReset ==
    /\ hop_index' = 0
    /\ target_index' = 1
    /\ current_resources' = << >>
    /\ next_resources' = << >>
    /\ relationship_path' = << >>

\* a chain longer than max_depth is skipped
SkipChain ==
    /\ qpc = "chains"
    /\ chain_index <= Len(Chains)
    /\ Len(CurrentChain.ref_chain) > config_max_depth
    /\ chain_index' = chain_index + 1
    /\ UNCHANGED <<queryInput, qpc, availableSchemas, traversal, discovered_resources,
                   intermediate_cache,
                   breakerVars, walkVars, clientVars, gateVars, rcVars, extraVars>>
    /\ UNCHANGED queryHist

\* _traverse_relationship_chain up to its loop over the hops
StartChain ==
    /\ qpc = "chains"
    /\ chain_index <= Len(Chains)
    /\ Len(CurrentChain.ref_chain) <= config_max_depth
    /\ ~EarlyTerminate
    /\ current_resources' = <<SourceRef>>
    /\ relationship_path' = <<SourceRef>>
    /\ hop_index' = 0
    /\ target_index' = 1
    /\ next_resources' = << >>
    /\ qpc' = "hop"
    /\ UNCHANGED <<queryInput, availableSchemas, chain_index, discovered_resources,
                   intermediate_cache,
                   breakerVars, walkVars, clientVars, gateVars, rcVars, extraVars>>
    /\ startedChains' = startedChains \cup {chain_index}
    /\ UNCHANGED <<abandonedChains, earlyBreak, completedHits>>

RefField == CurrentChain.ref_chain[hop_index + 1]
CacheKey == <<RefField, current_resources[target_index].name>>

\* _find_resources_referencing for one resource of the current set, answered
\* by the intermediate cache.  (The sets of one hop hold no name twice, so the
\* parallel gather and the sequential loop give the same lists.)
IntermediateCacheHit ==
    /\ qpc = "hop"
    /\ target_index <= Len(current_resources)
    /\ CacheKey \in DOMAIN intermediate_cache
    /\ next_resources' = next_resources \o intermediate_cache[CacheKey]
    /\ target_index' = target_index + 1
    /\ UNCHANGED <<queryInput, qpc, availableSchemas, chain_index, hop_index,
                   current_resources, relationship_path, discovered_resources,
                   intermediate_cache,
                   breakerVars, walkVars, clientVars, gateVars, rcVars, extraVars>>
    /\ UNCHANGED queryHist

\* a search that leaves the intermediate cache as it was
keep_cache(cached, cache_key, found_resources) == cached

\* a cache entry that forgets what was found
cache_empty_list(cached, cache_key, found_resources) == (cache_key :> << >>) @@ cached

\* the end of _find_resources_referencing: with cache_intermediate_results
\* (the default) whatever was found is stored under the search's key
cache_found(cached, cache_key, found_resources) ==
    (cache_key :> found_resources) @@ cached

\* the result of a search of the current cluster in which every List succeeds
complete_result(cache_key) ==
    SearchEach(get_search_configs_for_ref_field(cache_key[1]), cache_key[1],
               cache_key[2], {})

\* _find_resources_referencing on a cache miss: one search per search config,
\* each of which may return [] (breaker open, or the List failed); the result
\* is cached whatever it is
FindResourcesReferencing ==
    /\ qpc = "hop"
    /\ target_index <= Len(current_resources)
    /\ CacheKey \notin DOMAIN intermediate_cache
    /\ \E failed \in SUBSET Range(get_search_configs_for_ref_field(RefField)) :
         LET found_resources ==
               SearchEach(get_search_configs_for_ref_field(RefField), RefField,
                          current_resources[target_index].name, failed)
         IN  /\ next_resources' = next_resources \o found_resources
             /\ intermediate_cache' =
                    cache_found(intermediate_cache, CacheKey, found_resources)
    /\ target_index' = target_index + 1
    /\ UNCHANGED <<queryInput, qpc, availableSchemas, chain_index, hop_index,
                   current_resources, relationship_path, discovered_resources,
                   breakerVars, walkVars, clientVars, gateVars, rcVars, extraVars>>
    /\ UNCHANGED queryHist

HopFinished == qpc = "hop" /\ target_index > Len(current_resources)

\* the chain loop with the abandoned chain's failure ending the loop
AbortChains(i) == Len(Chains) + 1

\* the chain loop after a chain returned [] (timeout, exception, empty hop):
\* the for loop of discover_transitive_relationships takes the next chain
AfterAbandon(i) == i + 1

\* the hop found nothing: the chain returns []
HopEmpty ==
    /\ HopFinished
    /\ next_resources = << >>
    /\ chain_index' = AfterAbandon(chain_index)
    /\ traversalReset
    /\ qpc' = "chains"
    /\ UNCHANGED <<queryInput, availableSchemas, discovered_resources,
                   intermediate_cache,
                   breakerVars, walkVars, clientVars, gateVars, rcVars, extraVars>>
    /\ abandonedChains' = abandonedChains \cup {chain_index}
    /\ UNCHANGED <<startedChains, earlyBreak, completedHits>>

\* a hop before the last: the first resource found is sampled into the path
HopAdvance ==
    /\ HopFinished
    /\ next_resources # << >>
    /\ hop_index < Len(CurrentChain.ref_chain) - 1
    /\ current_resources' = next_resources
    /\ relationship_path' = Append(relationship_path, next_resources[1])
    /\ hop_index' = hop_index + 1
    /\ target_index' = 1
    /\ next_resources' = << >>
    /\ UNCHANGED <<queryInput, qpc, availableSchemas, chain_index,
                   discovered_resources, intermediate_cache,
                   breakerVars, walkVars, clientVars, gateVars, rcVars, extraVars>>
    /\ UNCHANGED queryHist

\* TransitiveDiscoveredResource for one resource of the final set
TransitiveHit(resource) ==
    [name |-> resource.name,
     kind |-> CurrentChain.target_kind,
     api_version |-> ApiVersionOf(resource.kind),
     relationship_path |-> relationship_path,
     discovery_hops |-> Len(CurrentChain.ref_chain),
     intermediate_resources |-> SubSeq(relationship_path, 2, Len(relationship_path) - 1)]

\* the last hop: at most max_resources_per_type hits, added under the target
\* kind's schema type
ChainComplete ==
    /\ HopFinished
    /\ next_resources # << >>
    /\ hop_index = Len(CurrentChain.ref_chain) - 1
    /\ LET discovered == [i \in 1..Min(Len(next_resources), MaxPerType) |->
                            TransitiveHit(next_resources[i])]
           schema_type == kind_to_schema_type(CurrentChain.target_kind)
       IN  discovered_resources' =
             [discovered_resources EXCEPT ![schema_type] = @ \o discovered]
    /\ chain_index' = chain_index + 1
    /\ traversalReset
    /\ qpc' = "chains"
    /\ UNCHANGED <<queryInput, availableSchemas, intermediate_cache, breakerVars,
                   walkVars, clientVars, gateVars, rcVars, extraVars>>
    /\ completedHits' = completedHits \cup
         {<<kind_to_schema_type(CurrentChain.target_kind), next_resources[i].name>> :
            i \in 1..Min(Len(next_resources), MaxPerType)}
    /\ UNCHANGED <<startedChains, abandonedChains, earlyBreak>>

\* asyncio.wait_for gives up on the hop while searches are outstanding: the
\* chain returns []
HopTimeout ==
    /\ qpc = "hop"
    /\ target_index <= Len(current_resources)
    /\ chain_index' = AfterAbandon(chain_index)
    /\ traversalReset
    /\ qpc' = "chains"
    /\ UNCHANGED <<queryInput, availableSchemas, discovered_resources,
                   intermediate_cache,
                   breakerVars, walkVars, clientVars, gateVars, rcVars, extraVars>>
    /\ abandonedChains' = abandonedChains \cup {chain_index}
    /\ UNCHANGED <<startedChains, earlyBreak, completedHits>>

\* the result of discover_transitive_relationships: every list deduplicated
Deduplicated == [t \in SchemaTypes |-> deduplicate_resources(discovered_resources[t])]

\* a merge that appends the new hits and leaves the block's metadata alone
merge_keeping_method(block, hits) ==
    LET instances == [i \in 1..Len(hits) |->
                        [name |-> hits[i].name, discoveredBy |-> "transitive"]]
        existing_names == {block.instances[i].name : i \in 1..Len(block.instances)}
        new_instances == SelectSeq(instances, LAMBDA inst : inst.name \notin existing_names)
    IN  IF block.discoveryMethod # "absent"
        THEN [block EXCEPT !.instances = @ \o new_instances]
        ELSE [discoveryMethod |-> "transitive", instances |-> instances]

\* _process_transitive_schema for one schema type: a new block, or the hits
\* whose name the existing block lacks appended to it
process_transitive_schema(block, hits) ==
    LET instances == [i \in 1..Len(hits) |->
                        [name |-> hits[i].name, discoveredBy |-> "transitive"]]
        existing_names == {block.instances[i].name : i \in 1..Len(block.instances)}
        new_instances == SelectSeq(instances, LAMBDA inst : inst.name \notin existing_names)
    IN  IF block.discoveryMethod # "absent"
        THEN IF new_instances # << >>
             THEN [discoveryMethod |-> "hybrid",
                   instances |-> block.instances \o new_instances]
             ELSE block
        ELSE [discoveryMethod |-> "transitive", instances |-> instances]

\* the end of discover_transitive_relationships and the merge of
\* _perform_transitive_discovery
ReturnAndMerge ==
    /\ discovered_resources' = Deduplicated
    /\ availableSchemas' =
         [t \in SchemaTypes |->
            IF Deduplicated[t] = << >> THEN availableSchemas[t]
            ELSE process_transitive_schema(availableSchemas[t], Deduplicated[t])]
    /\ qpc' = "done"
    /\ UNCHANGED <<queryInput, traversal, chain_index, intermediate_cache,
                   breakerVars, walkVars, clientVars, gateVars, rcVars, extraVars>>
    /\ UNCHANGED <<startedChains, abandonedChains, completedHits>>

\* every chain has been tried
ChainsExhausted ==
    /\ qpc = "chains"
    /\ chain_index > Len(Chains)
    /\ earlyBreak' = earlyBreak
    /\ ReturnAndMerge

\* the loop breaks once every discovered type is full
EarlyTermination ==
    /\ qpc = "chains"
    /\ chain_index <= Len(Chains)
    /\ Len(CurrentChain.ref_chain) <= config_max_depth
    /\ EarlyTerminate
    /\ earlyBreak' = TRUE
    /\ ReturnAndMerge

NextQuery ==
    \/ ProcessGenericQuery
    \/ PerformReverseDiscovery
    \/ SkipReverseDiscovery
    \/ SkipTransitiveDiscovery
    \/ StartTransitiveDiscovery
    \/ SkipChain
    \/ StartChain
    \/ IntermediateCacheHit
    \/ FindResourcesReferencing
    \/ HopEmpty
    \/ HopAdvance
    \/ ChainComplete
    \/ HopTimeout
    \/ ChainsExhausted
    \/ EarlyTermination


(***************************************************************************)
(* The transitive part of a query as a function of the cluster, the order  *)
(* of its Lists and the engine's intermediate cache, with every List       *)
(* answered and every hop in time.  Queries run one after another on the   *)
(* same engine; between two of them the cluster may start to answer its    *)
(* Lists in another order (seen by a new engine), and cache entries may    *)
(* pass their TTL.                                                         *)
(***************************************************************************)

\* queries of one behaviour
MaxRuns == 2

\* the end of _find_resources_referencing on a cache miss: what was found is
\* cached and returned
found_and_cached(cached, cache_key, found_resources) ==
    [found |-> found_resources,
     cached |-> cache_found(cached, cache_key, found_resources)]

\* _find_resources_referencing: the cached list, or one search per search
\* config, cached
find_resources_referencing(cached, target_name, ref_field) ==
    IF <<ref_field, target_name>> \in DOMAIN cached
    THEN [found |-> cached[<<ref_field, target_name>>], cached |-> cached]
    ELSE found_and_cached(cached, <<ref_field, target_name>>,
                          SearchEach(get_search_configs_for_ref_field(ref_field),
                                     ref_field, target_name, {}))

\* next_resources.extend(refs)
extended(sofar, refs) ==
    [found |-> sofar.found \o refs.found, cached |-> refs.cached]

\* _find_next_hop_resources: the results for each current resource, in order
find_next_hop_resources(cached, current, ref_field) ==
    LET upto[i \in 0..Len(current)] ==
            IF i = 0 THEN [found |-> << >>, cached |-> cached]
            ELSE extended(upto[i - 1],
                          find_resources_referencing(upto[i - 1].cached,
                                                     current[i].name, ref_field))
    IN  upto[Len(current)]

\* the end of a hop of _traverse_relationship_chain: the resources found
\* become the current ones, and on a hop before the last the first of them is
\* sampled into the path
hop_taken(before, next, last_hop) ==
    [found |-> next.found,
     path |-> IF next.found # << >> /\ ~last_hop
              THEN Append(before.path, next.found[1]) ELSE before.path,
     cached |-> next.cached]

\* the end of _traverse_relationship_chain: at most max_resources_per_type
\* hits (limited: the final resources were more)
chain_hits(final, chain) ==
    [found |-> [i \in 1..Min(Len(final.found), MaxPerType) |->
                  [name |-> final.found[i].name,
                   kind |-> chain.target_kind,
                   api_version |-> ApiVersionOf(final.found[i].kind),
                   relationship_path |-> final.path,
                   discovery_hops |-> Len(chain.ref_chain),
                   intermediate_resources |->
                       SubSeq(final.path, 2, Len(final.path) - 1)]],
     cached |-> final.cached,
     limited |-> Len(final.found) > MaxPerType]

\* _traverse_relationship_chain: the loop over the hops, which returns [] after
\* an empty hop
traverse_relationship_chain(cached, source, chain) ==
    LET after[i \in 0..Len(chain.ref_chain)] ==
            IF i = 0 THEN [found |-> <<source>>, path |-> <<source>>, cached |-> cached]
            ELSE IF after[i - 1].found = << >> THEN after[i - 1]
            ELSE hop_taken(after[i - 1],
                           find_next_hop_resources(after[i - 1].cached, after[i - 1].found,
                                                   chain.ref_chain[i]),
                           i = Len(chain.ref_chain))
    IN  chain_hits(after[Len(chain.ref_chain)], chain)

\* the early termination test of discover_transitive_relationships
early_termination(found, config) ==
    LET types == {t \in SchemaTypes : found[t] # << >>}
        lengths == [t \in SchemaTypes |-> Len(found[t])]
        total[ts \in SUBSET types] ==
            IF ts = {} THEN 0
            ELSE LET t == CHOOSE x \in ts : TRUE IN lengths[t] + total[ts \ {t}]
    IN  /\ config.early_termination_enabled
        /\ types # {}
        /\ total[types] >= MaxPerType * Cardinality(types)

\* discovered_resources[schema_type].extend(chain_resources)
chain_added(before, chain_resources, schema_type) ==
    [found |-> [before.found EXCEPT ![schema_type] = @ \o chain_resources.found],
     cached |-> chain_resources.cached,
     limited |-> before.limited \/ chain_resources.limited,
     stopped |-> FALSE]

\* the end of discover_transitive_relationships: every list deduplicated
without_duplicates(all) ==
    [found |-> [t \in SchemaTypes |-> deduplicate_resources(all.found[t])],
     cached |-> all.cached,
     limited |-> all.limited]

\* discover_transitive_relationships: the loop over the chains, which skips a
\* chain longer than max_depth and breaks on early termination (limited: a
\* chain was cut to max_resources_per_type or the loop ended early)
discover_transitive_relationships(cached, source, resource_type, config) ==
    LET relationship_chains == TRANSITIVE_RELATIONSHIP_CHAINS(resource_type)
        after[i \in 0..Len(relationship_chains)] ==
            IF i = 0
            THEN [found |-> [t \in SchemaTypes |-> << >>], cached |-> cached,
                  limited |-> FALSE, stopped |-> FALSE]
            ELSE IF after[i - 1].stopped
                    \/ Len(relationship_chains[i].ref_chain) > config.max_depth
            THEN after[i - 1]
            ELSE IF early_termination(after[i - 1].found, config)
            THEN [after[i - 1] EXCEPT !.stopped = TRUE, !.limited = TRUE]
            ELSE chain_added(after[i - 1],
                             traverse_relationship_chain(after[i - 1].cached, source,
                                                         relationship_chains[i]),
                             kind_to_schema_type(relationship_chains[i].target_kind))
    IN  without_duplicates(after[Len(relationship_chains)])

\* the instance _process_transitive_schema builds for a hit
instance_data(transitive_resource) ==
    [name |-> transitive_resource.name,
     discoveryHops |-> transitive_resource.discovery_hops,
     relationshipChain |->
         [i \in 1..Len(transitive_resource.relationship_path) |->
            <<transitive_resource.relationship_path[i].kind,
              transitive_resource.relationship_path[i].name>>],
     intermediateResources |-> transitive_resource.intermediate_resources]

\* the engine's configuration in a run
RunConfig == [max_depth |-> config_max_depth,
              early_termination_enabled |-> eval_in.early_termination_enabled]

\* a List holds more items than one search keeps
search_limit_reached == \E k \in SearchKinds : Len(listing[k]) > MaxPerType

\* a cluster, a query with transitive discovery only, a new engine
RunStart ==
    /\ QueryStart
    /\ providedRefs = << >>
    /\ ~requiresReverseDiscovery
    /\ enableTransitiveDiscovery
    /\ transitiveMaxDepth = 2
    /\ eval_in \in [early_termination_enabled : BOOLEAN]
    /\ eval_out = << >>
    /\ eval_pc = "start"

runIdle == <<resources, requestor, providedRefs, transitiveMaxDepth,
             requiresReverseDiscovery, enableTransitiveDiscovery, config_max_depth,
             qpc, availableSchemas, chain_index, traversal, discovered_resources,
             queryHist, eval_in, interVars, breakerVars, walkVars, clientVars,
             gateVars, rcVars, keyVars, mergeVars, respVars, healthVars>>

\* the record of a run and the cache it leaves
Discovered(transitive_resources) ==
    /\ eval_out' = Append(eval_out,
          [availableSchemas |->
               [t \in SchemaTypes |->
                  [i \in 1..Len(transitive_resources.found[t]) |->
                     instance_data(transitive_resources.found[t][i])]],
           order |-> listing,
           limited |-> transitive_resources.limited \/ search_limit_reached,
           cached_before |-> DOMAIN intermediate_cache])
    /\ intermediate_cache' = transitive_resources.cached

\* one query: _perform_transitive_discovery on the engine as it is
PerformTransitiveDiscovery ==
    /\ eval_pc = "start"
    /\ Discovered(discover_transitive_relationships(intermediate_cache, SourceRef,
                                                    requestor.kind, RunConfig))
    /\ eval_pc' = IF Len(eval_out) + 1 >= MaxRuns THEN "done" ELSE "start"
    /\ UNCHANGED <<listing, runIdle>>

\* the cluster, unchanged, starts to answer its Lists in another order; the
\* function restarts with a new engine
ListInOtherOrder ==
    /\ eval_pc = "start"
    /\ eval_out # << >>
    /\ \E reordered \in SUBSET {k \in SearchKinds : Len(listing[k]) > 1} :
         /\ reordered # {}
         /\ listing' = [k \in SearchKinds |->
                          IF k \in reordered
                          THEN [i \in 1..Len(listing[k]) |->
                                  listing[k][Len(listing[k]) + 1 - i]]
                          ELSE listing[k]]
    /\ intermediate_cache' = << >>
    /\ UNCHANGED <<eval_out, eval_pc, runIdle>>

\* an entry of the intermediate cache passes its TTL: the next read drops it
IntermediateExpires ==
    /\ eval_pc = "start"
    /\ \E cache_key \in DOMAIN intermediate_cache :
         intermediate_cache' = [k \in DOMAIN intermediate_cache \ {cache_key} |->
                                  intermediate_cache[k]]
    /\ UNCHANGED <<listing, eval_out, eval_pc, runIdle>>

NextRun ==
    \/ PerformTransitiveDiscovery
    \/ ListInOtherOrder
    \/ IntermediateExpires


(***************************************************************************)
(* K8sClient: _ensure_connected, _retry_request, get_resource and          *)
(* list_resources, for requests running concurrently on one client         *)
(***************************************************************************)

\* concurrent requests on the one client
Reqs == {"r1", "r2"}

\* K8sClient.max_retries, scaled down
MaxRetries == 2
\* K8sClient._health_check_interval, in ticks
HealthCheckInterval == 1
\* last tick of the clock
MaxClock == 3

\* ApiException statuses raised at once, never retried
NonRetryableSansNotFound == {"401", "403"}

NonRetryable == {"401", "403", "404"}

\* outcomes of an attempt that are retried: ApiException with a status of 500
\* or more, ApiException with another status, any other exception (a timeout;
\* also the TypeError run_in_executor raises for list_resources' keyword
\* arguments)
Transient == {"5xx", "4xx", "error"}

\* what an attempt can end with, besides the result
ApiAnswers == {"401", "403", "404", "5xx", "4xx", "error"}

\* K8sClient.retry_delay, in seconds
RetryDelay == 1

\* a delay that never grows
constant_delay(a) == RetryDelay

\* "delay = self.retry_delay * (2 ** attempt)"
backoff_delay(a) == RetryDelay * 2^a

\* the loop "for attempt in range(max_retries + 1)" with one iteration more
ExhaustedLate(a) == a >= MaxRetries + 1

\* "attempt < self.max_retries" is false: the loop ends after this iteration
Exhausted(a) == a >= MaxRetries

\* the exception _retry_request raises for a status it does not retry
typed_error(status) ==
    CASE status = "401" -> "K8sAuthenticationError"
      [] status = "403" -> "K8sPermissionError"
      [] status = "404" -> "K8sResourceNotFoundError"

\* the except clause that ends get_resource and list_resources: the listed
\* types pass, anything else becomes K8sConnectionError
surface(op, error) ==
    IF op = "get"
    THEN IF error \in {"K8sResourceNotFoundError", "K8sPermissionError",
                       "K8sConnectionError"}
         THEN error ELSE "K8sConnectionError"
    ELSE IF error \in {"K8sPermissionError", "K8sConnectionError"}
         THEN error ELSE "K8sConnectionError"

\* connect() calls in flight
Connecting == {r \in Reqs : reqPc[r] = "connecting"}

\* a client that was connected once, no request running
ClientIdle ==
    /\ connected = TRUE
    /\ last_health_check = 0
    /\ clock = 0
    /\ reqPc = [r \in Reqs |-> "idle"]
    /\ reqOp = [r \in Reqs |-> "none"]
    /\ connectFrom = [r \in Reqs |-> "none"]
    /\ current_time = [r \in Reqs |-> 0]
    /\ attempt = [r \in Reqs |-> 0]
    /\ apiCalls = [r \in Reqs |-> 0]
    /\ sleeps = [r \in Reqs |-> 0]
    /\ delays = [r \in Reqs |-> << >>]
    /\ lastAnswer = [r \in Reqs |-> "none"]
    /\ surfaced = [r \in Reqs |-> "none"]

\* the client's API objects exist (connect() ran once); the connection may
\* since have been lost
ClientStart ==
    /\ connected \in BOOLEAN
    /\ last_health_check = 0
    /\ clock = 0
    /\ reqPc = [r \in Reqs |-> "idle"]
    /\ reqOp = [r \in Reqs |-> "none"]
    /\ connectFrom = [r \in Reqs |-> "none"]
    /\ current_time = [r \in Reqs |-> 0]
    /\ attempt = [r \in Reqs |-> 0]
    /\ apiCalls = [r \in Reqs |-> 0]
    /\ sleeps = [r \in Reqs |-> 0]
    /\ delays = [r \in Reqs |-> << >>]
    /\ lastAnswer = [r \in Reqs |-> "none"]
    /\ surfaced = [r \in Reqs |-> "none"]

reqCounters == <<attempt, apiCalls, sleeps, delays, lastAnswer, surfaced>>

ClientTick ==
    /\ clock < MaxClock
    /\ clock' = clock + 1
    /\ UNCHANGED <<connected, last_health_check, reqPc, reqOp, connectFrom,
                   current_time, reqCounters,
                   breakerVars, walkVars, queryVars, gateVars, rcVars, extraVars>>

\* get_resource / list_resources enter _retry_request; _ensure_connected finds
\* the client disconnected and awaits connect()
EnsureConnects(r, op) ==
    /\ reqPc[r] = "idle"
    /\ ~connected
    /\ reqOp' = [reqOp EXCEPT ![r] = op]
    /\ current_time' = [current_time EXCEPT ![r] = clock]
    /\ connectFrom' = [connectFrom EXCEPT ![r] = "ensure"]
    /\ reqPc' = [reqPc EXCEPT ![r] = "connecting"]
    /\ UNCHANGED <<connected, last_health_check, clock, reqCounters,
                   breakerVars, walkVars, queryVars, gateVars, rcVars, extraVars>>

\* _ensure_connected finds the health check due and awaits _test_connection
EnsureHealthCheck(r, op) ==
    /\ reqPc[r] = "idle"
    /\ connected
    /\ clock - last_health_check > HealthCheckInterval
    /\ reqOp' = [reqOp EXCEPT ![r] = op]
    /\ current_time' = [current_time EXCEPT ![r] = clock]
    /\ reqPc' = [reqPc EXCEPT ![r] = "health"]
    /\ UNCHANGED <<connected, last_health_check, clock, connectFrom, reqCounters,
                   breakerVars, walkVars, queryVars, gateVars, rcVars, extraVars>>

\* _ensure_connected has nothing to do
EnsureNothing(r, op) ==
    /\ reqPc[r] = "idle"
    /\ connected
    /\ clock - last_health_check <= HealthCheckInterval
    /\ reqOp' = [reqOp EXCEPT ![r] = op]
    /\ current_time' = [current_time EXCEPT ![r] = clock]
    /\ reqPc' = [reqPc EXCEPT ![r] = "attempt"]
    /\ UNCHANGED <<connected, last_health_check, clock, connectFrom, reqCounters,
                   breakerVars, walkVars, queryVars, gateVars, rcVars, extraVars>>

HealthOk(r) ==
    /\ reqPc[r] = "health"
    /\ last_health_check' = current_time[r]
    /\ reqPc' = [reqPc EXCEPT ![r] = "attempt"]
    /\ UNCHANGED <<connected, clock, reqOp, connectFrom, current_time, reqCounters,
                   breakerVars, walkVars, queryVars, gateVars, rcVars, extraVars>>

\* the health check raised: "Health check failed, reconnecting..."
HealthFails(r) ==
    /\ reqPc[r] = "health"
    /\ connectFrom' = [connectFrom EXCEPT ![r] = "ensure"]
    /\ reqPc' = [reqPc EXCEPT ![r] = "connecting"]
    /\ UNCHANGED <<connected, last_health_check, clock, reqOp, current_time,
                   reqCounters,
                   breakerVars, walkVars, queryVars, gateVars, rcVars, extraVars>>

\* connect() succeeded
ConnectOk(r) ==
    /\ reqPc[r] = "connecting"
    /\ connected' = TRUE
    /\ last_health_check' = clock
    /\ attempt' = [attempt EXCEPT ![r] = IF connectFrom[r] = "retry" THEN @ + 1 ELSE @]
    /\ connectFrom' = [connectFrom EXCEPT ![r] = "none"]
    /\ reqPc' = [reqPc EXCEPT ![r] = "attempt"]
    /\ UNCHANGED <<clock, reqOp, current_time, apiCalls, sleeps, delays, lastAnswer, surfaced,
                   breakerVars, walkVars, queryVars, gateVars, rcVars, extraVars>>

\* connect() called by _ensure_connected raised: the request ends before its
\* first attempt
EnsureConnectFails(r, error) ==
    /\ reqPc[r] = "connecting"
    /\ connectFrom[r] = "ensure"
    /\ connected' = FALSE
    /\ connectFrom' = [connectFrom EXCEPT ![r] = "none"]
    /\ surfaced' = [surfaced EXCEPT ![r] = surface(reqOp[r], error)]
    /\ reqPc' = [reqPc EXCEPT ![r] = "done"]
    /\ UNCHANGED <<last_health_check, clock, reqOp, current_time, attempt, apiCalls,
                   sleeps, delays, lastAnswer,
                   breakerVars, walkVars, queryVars, gateVars, rcVars, extraVars>>

\* connect() called between two attempts raised: "Reconnection failed", the
\* loop goes on
ReconnectFails(r) ==
    /\ reqPc[r] = "connecting"
    /\ connectFrom[r] = "retry"
    /\ connected' = FALSE
    /\ connectFrom' = [connectFrom EXCEPT ![r] = "none"]
    /\ attempt' = [attempt EXCEPT ![r] = @ + 1]
    /\ reqPc' = [reqPc EXCEPT ![r] = "attempt"]
    /\ UNCHANGED <<last_health_check, clock, reqOp, current_time, apiCalls, sleeps, delays,
                   lastAnswer, surfaced,
                   breakerVars, walkVars, queryVars, gateVars, rcVars, extraVars>>

\* one iteration of the loop: the API call goes to the executor
Attempt(r) ==
    /\ reqPc[r] = "attempt"
    /\ apiCalls' = [apiCalls EXCEPT ![r] = @ + 1]
    /\ reqPc' = [reqPc EXCEPT ![r] = "called"]
    /\ UNCHANGED <<connected, last_health_check, clock, reqOp, connectFrom,
                   current_time, attempt, sleeps, delays, lastAnswer, surfaced,
                   breakerVars, walkVars, queryVars, gateVars, rcVars, extraVars>>

AnswerOk(r) ==
    /\ reqPc[r] = "called"
    /\ lastAnswer' = [lastAnswer EXCEPT ![r] = "ok"]
    /\ surfaced' = [surfaced EXCEPT ![r] = "ok"]
    /\ reqPc' = [reqPc EXCEPT ![r] = "done"]
    /\ UNCHANGED <<connected, last_health_check, clock, reqOp, connectFrom,
                   current_time, attempt, apiCalls, sleeps, delays,
                   breakerVars, walkVars, queryVars, gateVars, rcVars, extraVars>>

\* an ApiException the loop retries, or any other exception
AnswerRetried(r, answer) ==
    /\ reqPc[r] = "called"
    /\ answer \notin NonRetryable
    /\ lastAnswer' = [lastAnswer EXCEPT ![r] = answer]
    /\ IF Exhausted(attempt[r])
       THEN /\ surfaced' = [surfaced EXCEPT ![r] = surface(reqOp[r], "K8sConnectionError")]
            /\ reqPc' = [reqPc EXCEPT ![r] = "done"]
            /\ sleeps' = sleeps
            /\ delays' = delays
       ELSE /\ sleeps' = [sleeps EXCEPT ![r] = @ + 1]
            /\ delays' = [delays EXCEPT ![r] = Append(@, backoff_delay(attempt[r]))]
            /\ reqPc' = [reqPc EXCEPT ![r] = "sleeping"]
            /\ surfaced' = surfaced
    /\ UNCHANGED <<connected, last_health_check, clock, reqOp, connectFrom,
                   current_time, attempt, apiCalls,
                   breakerVars, walkVars, queryVars, gateVars, rcVars, extraVars>>

\* ApiException with status 401, 403 or 404: raised out of the loop
AnswerRefused(r, answer) ==
    /\ reqPc[r] = "called"
    /\ answer \in NonRetryable
    /\ lastAnswer' = [lastAnswer EXCEPT ![r] = answer]
    /\ surfaced' = [surfaced EXCEPT ![r] = surface(reqOp[r], typed_error(answer))]
    /\ reqPc' = [reqPc EXCEPT ![r] = "done"]
    /\ UNCHANGED <<connected, last_health_check, clock, reqOp, connectFrom,
                   current_time, attempt, apiCalls, sleeps, delays,
                   breakerVars, walkVars, queryVars, gateVars, rcVars, extraVars>>

\* asyncio.sleep(delay) is over; a status of 500 or more reconnects first
WakeReconnect(r) ==
    /\ reqPc[r] = "sleeping"
    /\ lastAnswer[r] = "5xx"
    /\ connectFrom' = [connectFrom EXCEPT ![r] = "retry"]
    /\ reqPc' = [reqPc EXCEPT ![r] = "connecting"]
    /\ UNCHANGED <<connected, last_health_check, clock, reqOp, current_time,
                   reqCounters,
                   breakerVars, walkVars, queryVars, gateVars, rcVars, extraVars>>

WakeRetry(r) ==
    /\ reqPc[r] = "sleeping"
    /\ lastAnswer[r] # "5xx"
    /\ attempt' = [attempt EXCEPT ![r] = @ + 1]
    /\ reqPc' = [reqPc EXCEPT ![r] = "attempt"]
    /\ UNCHANGED <<connected, last_health_check, clock, reqOp, connectFrom,
                   current_time, apiCalls, sleeps, delays, lastAnswer, surfaced,
                   breakerVars, walkVars, queryVars, gateVars, rcVars, extraVars>>

NextClient ==
    \/ ClientTick
    \/ \E r \in Reqs, op \in {"get", "list"} : EnsureConnects(r, op)
    \/ \E r \in Reqs, op \in {"get", "list"} : EnsureHealthCheck(r, op)
    \/ \E r \in Reqs, op \in {"get", "list"} : EnsureNothing(r, op)
    \/ \E r \in Reqs : HealthOk(r)
    \/ \E r \in Reqs : HealthFails(r)
    \/ \E r \in Reqs : ConnectOk(r)
    \/ \E r \in Reqs, error \in {"K8sAuthenticationError", "K8sConnectionError"} :
            EnsureConnectFails(r, error)
    \/ \E r \in Reqs : ReconnectFails(r)
    \/ \E r \in Reqs : Attempt(r)
    \/ \E r \in Reqs : AnswerOk(r)
    \/ \E r \in Reqs, answer \in ApiAnswers : AnswerRetried(r, answer)
    \/ \E r \in Reqs, answer \in ApiAnswers : AnswerRefused(r, answer)
    \/ \E r \in Reqs : WakeReconnect(r)
    \/ \E r \in Reqs : WakeRetry(r)

(***************************************************************************)
(* ResourceResolver._semaphore: Get calls of resolve_resource, reached     *)
(* from BFS walks and from resolve_parallel                                *)
(***************************************************************************)

\* tasks calling resolve_resource on the one resolver
Workers == {"w1", "w2", "w3", "w4"}

\* ResourceResolver.max_concurrent, scaled down
MaxConcurrent == 2
\* the max_concurrent argument of resolve_parallel
ParallelOverride == 3

\* a semaphore that never blocks
NeverLocked(value) == TRUE

\* asyncio.Semaphore: acquire() returns at once only when the value is positive
SemaphoreFree(value) == value > 0

\* Get calls in flight
InFlight == {w \in Workers : wPc[w] = "get"}

GateIdle ==
    /\ semaphore_value = MaxConcurrent
    /\ parallel_value = ParallelOverride
    /\ wPc = [w \in Workers |-> "idle"]
    /\ wOrigin = [w \in Workers |-> "none"]

\* the BFS loop of a walk calls resolve_resource(current_ref, context)
BfsResolve(w) ==
    /\ wPc[w] = "idle"
    /\ wOrigin' = [wOrigin EXCEPT ![w] = "bfs"]
    /\ wPc' = [wPc EXCEPT ![w] = "resolve"]
    /\ UNCHANGED <<semaphore_value, parallel_value,
                   breakerVars, walkVars, queryVars, clientVars, rcVars, extraVars>>

\* resolve_parallel creates the task resolve_one(ref)
ParallelStart(w) ==
    /\ wPc[w] = "idle"
    /\ wOrigin' = [wOrigin EXCEPT ![w] = "parallel"]
    /\ wPc' = [wPc EXCEPT ![w] = "queued"]
    /\ UNCHANGED <<semaphore_value, parallel_value,
                   breakerVars, walkVars, queryVars, clientVars, rcVars, extraVars>>

\* resolve_one passes resolve_parallel's own semaphore and calls
\* resolve_resource(ref)
ParallelEnter(w) ==
    /\ wPc[w] = "queued"
    /\ SemaphoreFree(parallel_value)
    /\ parallel_value' = parallel_value - 1
    /\ wPc' = [wPc EXCEPT ![w] = "resolve"]
    /\ UNCHANGED <<semaphore_value, wOrigin,
                   breakerVars, walkVars, queryVars, clientVars, rcVars, extraVars>>

\* resolve_resource returns from the cache or raises from its checks: no Get
ResolveWithoutGet(w) ==
    /\ wPc[w] = "resolve"
    /\ parallel_value' = IF wOrigin[w] = "parallel" THEN parallel_value + 1
                         ELSE parallel_value
    /\ wPc' = [wPc EXCEPT ![w] = "skipped"]
    /\ UNCHANGED <<semaphore_value, wOrigin,
                   breakerVars, walkVars, queryVars, clientVars, rcVars, extraVars>>

\* "async with self._semaphore", then k8s_client.get_resource is awaited
AcquireAndGet(w) ==
    /\ wPc[w] = "resolve"
    /\ SemaphoreFree(semaphore_value)
    /\ semaphore_value' = semaphore_value - 1
    /\ wPc' = [wPc EXCEPT ![w] = "get"]
    /\ UNCHANGED <<parallel_value, wOrigin,
                   breakerVars, walkVars, queryVars, clientVars, rcVars, extraVars>>

\* get_resource returned or raised: both semaphores are released on the way out
GetDone(w) ==
    /\ wPc[w] = "get"
    /\ semaphore_value' = semaphore_value + 1
    /\ parallel_value' = IF wOrigin[w] = "parallel" THEN parallel_value + 1
                         ELSE parallel_value
    /\ wPc' = [wPc EXCEPT ![w] = "fetched"]
    /\ UNCHANGED <<wOrigin, breakerVars, walkVars, queryVars, clientVars, rcVars, extraVars>>

NextGate ==
    \/ \E w \in Workers : BfsResolve(w)
    \/ \E w \in Workers : ParallelStart(w)
    \/ \E w \in Workers : ParallelEnter(w)
    \/ \E w \in Workers : ResolveWithoutGet(w)
    \/ \E w \in Workers : AcquireAndGet(w)
    \/ \E w \in Workers : GetDone(w)

(***************************************************************************)
(* ContextCache: the response cache                                        *)
(***************************************************************************)

CacheKeys == {"k1", "k2", "k3"}
CacheData == {"v1", "v2"}

\* ContextCache.ttl_seconds, in ticks
TtlSeconds == 1
\* ContextCache.max_entries, scaled down
MaxEntries == 2
\* last tick of time.time()
MaxCacheClock == 3
\* cap of CacheEntry.hits
MaxHits == 2

NoPut == [data |-> "none", time |-> 0]

\* an entry that never ages out
NeverExpired(entry, current) == FALSE

\* get / cleanup_expired: "current_time - entry.timestamp > self.ttl_seconds"
Expired(entry, current) == current - entry.timestamp > TtlSeconds

\* an entry stamped with the time the cache was created
StaleEntry(data, current) == [data |-> data, timestamp |-> 0, hits |-> 0]

\* set: CacheEntry(data=data, timestamp=current_time, hits=0)
NewEntry(data, current) == [data |-> data, timestamp |-> current, hits |-> 0]

\* a sequence without the key k
Without(seq, k) == SelectSeq(seq, LAMBDA x : x # k)

\* the key stored last
last_key == cache_order[Len(cache_order)]

\* _evict_lru: min(self.cache.keys(), key=timestamp), the first key in dict
\* order among those with the lowest timestamp
oldest_key ==
    LET low(i) == \A j \in 1..Len(cache_order) :
                      context_cache[cache_order[i]].timestamp
                          <= context_cache[cache_order[j]].timestamp
        first == CHOOSE i \in 1..Len(cache_order) :
                      low(i) /\ \A j \in 1..(i - 1) : ~low(j)
    IN  cache_order[first]

\* a full cache that is emptied to make room
EvictAll ==
    IF Len(cache_order) >= MaxEntries THEN DOMAIN context_cache ELSE {}

\* a set that never makes room
EvictNone == {}

\* set: "if len(self.cache) >= self.max_entries: self._evict_lru()", which
\* deletes one key unless the cache is empty
Evicted ==
    IF Len(cache_order) >= MaxEntries /\ Len(cache_order) > 0 THEN {oldest_key} ELSE {}

RcIdle ==
    /\ context_cache = << >>
    /\ cache_order = << >>
    /\ rcClock = 0
    /\ rcLast = [op |-> "none", key |-> "none", found |-> FALSE, result |-> "none",
                evicted |-> {}]
    /\ lastPut = [k \in CacheKeys |-> NoPut]
    /\ dropped = {}

RcTick ==
    /\ rcClock < MaxCacheClock
    /\ rcClock' = rcClock + 1
    /\ rcLast' = [op |-> "tick", key |-> "none", found |-> FALSE, result |-> "none",
                  evicted |-> {}]
    /\ UNCHANGED <<context_cache, cache_order, lastPut, dropped,
                   breakerVars, walkVars, queryVars, clientVars, gateVars, extraVars>>

\* get(key): "if key not in self.cache: return None"
CacheGetMissing(k) ==
    /\ k \notin DOMAIN context_cache
    /\ rcLast' = [op |-> "get", key |-> k, found |-> FALSE, result |-> "miss",
                  evicted |-> {}]
    /\ UNCHANGED <<context_cache, cache_order, rcClock, lastPut, dropped,
                   breakerVars, walkVars, queryVars, clientVars, gateVars, extraVars>>

\* get(key) on an expired entry: "del self.cache[key]; return None"
CacheGetExpired(k) ==
    /\ k \in DOMAIN context_cache
    /\ Expired(context_cache[k], rcClock)
    /\ context_cache' = [x \in DOMAIN context_cache \ {k} |-> context_cache[x]]
    /\ cache_order' = Without(cache_order, k)
    /\ rcLast' = [op |-> "get", key |-> k, found |-> TRUE, result |-> "miss",
                  evicted |-> {}]
    /\ UNCHANGED <<rcClock, lastPut, dropped,
                   breakerVars, walkVars, queryVars, clientVars, gateVars, extraVars>>

\* get(key) on a live entry: "entry.hits += 1; return entry.data"
CacheGetHit(k) ==
    /\ k \in DOMAIN context_cache
    /\ ~Expired(context_cache[k], rcClock)
    /\ context_cache[k].hits < MaxHits
    /\ context_cache' = [context_cache EXCEPT ![k].hits = @ + 1]
    /\ rcLast' = [op |-> "get", key |-> k, found |-> TRUE,
                  result |-> context_cache[k].data, evicted |-> {}]
    /\ UNCHANGED <<cache_order, rcClock, lastPut, dropped,
                   breakerVars, walkVars, queryVars, clientVars, gateVars, extraVars>>

\* set(key, data): evict when len(self.cache) >= max_entries, then store
CacheSet(k, data) ==
    LET evicted == Evicted
        kept == DOMAIN context_cache \ evicted
        order == SelectSeq(cache_order, LAMBDA x : x \notin evicted)
    IN  /\ context_cache' = [x \in kept \cup {k} |->
                                IF x = k THEN NewEntry(data, rcClock)
                                ELSE context_cache[x]]
        /\ cache_order' = IF k \in kept THEN order ELSE Append(order, k)
        /\ lastPut' = [lastPut EXCEPT ![k] = [data |-> data, time |-> rcClock]]
        /\ dropped' = (dropped \cup evicted) \ {k}
        /\ rcLast' = [op |-> "set", key |-> k, found |-> k \in DOMAIN context_cache,
                      result |-> "none", evicted |-> evicted]
        /\ UNCHANGED <<rcClock, breakerVars, walkVars, queryVars, clientVars, gateVars, extraVars>>

\* clear()
CacheClear ==
    /\ context_cache' = << >>
    /\ cache_order' = << >>
    /\ dropped' = dropped \cup DOMAIN context_cache
    /\ rcLast' = [op |-> "clear", key |-> "none", found |-> FALSE, result |-> "none",
                  evicted |-> {}]
    /\ UNCHANGED <<rcClock, lastPut,
                   breakerVars, walkVars, queryVars, clientVars, gateVars, extraVars>>

\* cleanup_expired()
CleanupExpired ==
    LET expired_keys == {x \in DOMAIN context_cache : Expired(context_cache[x], rcClock)}
    IN  /\ context_cache' = [x \in DOMAIN context_cache \ expired_keys |-> context_cache[x]]
        /\ cache_order' = SelectSeq(cache_order, LAMBDA x : x \notin expired_keys)
        /\ rcLast' = [op |-> "cleanup", key |-> "none", found |-> FALSE, result |-> "none",
                  evicted |-> {}]
        /\ UNCHANGED <<rcClock, lastPut, dropped,
                       breakerVars, walkVars, queryVars, clientVars, gateVars, extraVars>>

\* the response process_query computes for the query with cache key k
query_result(k) ==
    CASE k = "k1" -> "v1"
      [] k = "k2" -> "v2"
      [] k = "k3" -> "v1"

\* get_stats()["total_hits"]
total_hits ==
    LET RECURSIVE Sum(_)
        Sum(keys) == IF keys = {} THEN 0
                     ELSE LET x == CHOOSE x \in keys : TRUE
                          IN  context_cache[x].hits + Sum(keys \ {x})
    IN  Sum(DOMAIN context_cache)

\* process_query on a processor whose cache attribute is set: the query is
\* routed and answered; self.cache is neither read nor written.  found
\* records that the query repeats the one processed just before.
ProcessQuery(k) ==
    /\ rcLast' = [op |-> "query", key |-> k,
                  found |-> (rcLast.op = "query" /\ rcLast.key = k),
                  result |-> query_result(k), evicted |-> {}]
    /\ UNCHANGED <<context_cache, cache_order, rcClock, lastPut, dropped,
                   breakerVars, walkVars, queryVars, clientVars, gateVars, extraVars>>

NextCache ==
    \/ RcTick
    \/ \E k \in CacheKeys : CacheGetMissing(k)
    \/ \E k \in CacheKeys : CacheGetExpired(k)
    \/ \E k \in CacheKeys : CacheGetHit(k)
    \/ \E k \in CacheKeys, data \in CacheData : CacheSet(k, data)
    \/ CacheClear
    \/ CleanupExpired

\* a query processor with the cache attached, next to direct uses of the cache
NextServe ==
    \/ RcTick
    \/ \E k \in CacheKeys : CacheGetMissing(k)
    \/ \E k \in CacheKeys : CacheGetExpired(k)
    \/ \E k \in CacheKeys : CacheGetHit(k)
    \/ \E k \in CacheKeys, data \in CacheData : CacheSet(k, data)
    \/ CacheClear
    \/ CleanupExpired
    \/ \E k \in CacheKeys : ProcessQuery(k)


(***************************************************************************)
(* ContextCache.generate_key, called in several processes                  *)
(***************************************************************************)

\* the processes that compute a key for the same query
Procs == {"p1", "p2"}

\* PYTHONHASHSEED: chosen at random when a process starts, unless it is fixed
\* in the environment
HashSeeds == {"s1", "s2"}

\* context["references"]: absent, or one of these dicts
ReferenceMaps == {"absent", "{}", "{kubEnvRefs: [e1]}"}

\* context["discoveryHints"]["targetRef"] when requiresReverseDiscovery is set
TargetRefs == {"none", "XGitHubProject:p1:default", "XKubeCluster:c1:default"}

\* requested_schemas
SchemaLists == {<< >>, <<"kubEnv">>, <<"kubEnv", "kubeSystem">>, <<"kubeSystem", "kubEnv">>}

KeyInputs ==
    [resource_type : {"XApp", "XKubeCluster"},
     discovery_mode : {"forward", "bidirectional"},
     references : ReferenceMaps,
     targetRef : TargetRefs,
     enableTransitiveDiscovery : BOOLEAN,
     transitiveMaxDepth : {2, 3},
     requested_schemas : SchemaLists]

\* the builtin hash() of a str: a function of the text and of the process's
\* hash seed
py_hash(seed, text) == [hash |-> text, seed |-> seed]

\* sorted(requested_schemas), for the lists of SchemaLists
sorted_schemas(list) ==
    IF Len(list) = 2 /\ list[1] = "kubeSystem" THEN <<list[2], list[1]>> ELSE list

\* hashlib.md5(key_string.encode()).hexdigest(): a function of the string only
md5(key_string) == [md5 |-> key_string]

\* generate_key: the key components, joined and hashed
generate_key(seed, in) ==
    LET base == <<[type |-> in.resource_type], [mode |-> in.discovery_mode]>>
        refs == IF in.references # "absent"
                THEN <<[refs |-> py_hash(seed, in.references)]>> ELSE << >>
        target == IF in.targetRef # "none"
                  THEN <<[target |-> in.targetRef]>> ELSE << >>
        transitive == IF in.enableTransitiveDiscovery
                      THEN <<[transitive |-> "enabled"], [depth |-> in.transitiveMaxDepth]>>
                      ELSE << >>
        schemas == IF in.requested_schemas # << >>
                   THEN <<[schemas |-> sorted_schemas(in.requested_schemas)]>>
                   ELSE << >>
    IN  md5(base \o refs \o target \o transitive \o schemas)

KeyIdle ==
    /\ keyInput = [resource_type |-> "XApp", discovery_mode |-> "forward",
                   references |-> "absent", targetRef |-> "none",
                   enableTransitiveDiscovery |-> FALSE, transitiveMaxDepth |-> 3,
                   requested_schemas |-> << >>]
    /\ procSeed = [p \in Procs |-> "s1"]
    /\ keyOut = [p \in Procs |-> << >>]

KeyStart ==
    /\ keyInput \in KeyInputs
    /\ procSeed \in [Procs -> HashSeeds]
    /\ keyOut = [p \in Procs |-> << >>]

\* calls of generate_key per process
MaxKeyCalls == 2

\* process p computes the key of the query
GenerateKey(p) ==
    /\ Len(keyOut[p]) < MaxKeyCalls
    /\ keyOut' = [keyOut EXCEPT ![p] = Append(@, generate_key(procSeed[p], keyInput))]
    /\ UNCHANGED <<keyInput, procSeed, coreVars, mergeVars, respVars, healthVars,
                   lateVars>>

NextKey ==
    \E p \in Procs : GenerateKey(p)

(***************************************************************************)
(* QueryProcessor._process_transitive_schema: the merge of transitive hits *)
(* into a schema block, on any block and any hits                          *)
(***************************************************************************)

MergeNames == {"n1", "n2", "n3"}
\* longest list of transitive hits for one schema type
MaxMergeHits == 2
\* most instances of the block before the merge
MaxBlockInstances == 2

\* the lists of at most n names, none twice
DistinctSeqs(n) ==
    {q \in UNION {[1..k -> MergeNames] : k \in 0..n} :
        \A i, j \in 1..Len(q) : i # j => q[i] # q[j]}

MergeIdle ==
    /\ merge_block = NoBlock
    /\ merge_hits = << >>
    /\ merge_pc = "idle"
    /\ merge_before = NoBlock

\* _perform_transitive_discovery is about to merge the (deduplicated, non-empty)
\* hits for a schema type; the block is absent, or was built from provided
\* references or by reverse discovery
MergeStart ==
    /\ \E how \in {"absent", "unset", "reverse"}, names \in DistinctSeqs(MaxBlockInstances) :
          /\ how = "absent" => names = << >>
          /\ merge_block =
                [discoveryMethod |-> how,
                 instances |-> Instances(names, IF how = "reverse" THEN "reverse"
                                                ELSE "generic")]
    /\ \E names \in DistinctSeqs(MaxMergeHits) :
          /\ names # << >>
          /\ merge_hits = [i \in 1..Len(names) |-> [name |-> names[i]]]
    /\ merge_pc = "start"
    /\ merge_before = merge_block

MergeTransitive ==
    /\ merge_pc = "start"
    /\ merge_block' = process_transitive_schema(merge_block, merge_hits)
    /\ merge_pc' = "merged"
    /\ UNCHANGED <<merge_hits, merge_before, coreVars, keyVars, respVars, healthVars,
                   lateVars>>

NextMerge == MergeTransitive

(***************************************************************************)
(* ResponseGenerator: generate_response and validate_response_format, on   *)
(* the platform context process_query builds from provided references,     *)
(* reverse discovery and transitive discovery.  A dict is a function on    *)
(* its keys; nested values that no code of this section looks into are     *)
(* strings.                                                                *)
(***************************************************************************)

\* query["resourceType"]: a kind with a query path and a summary filter of its
\* own, and a kind of the generic path
RespTypes == {"XApp", "XKubeCluster"}
\* schema names of requestedSchemas, of the discovery hints and of the
\* transitive results; "widget" is not in the registry
RespSchemas == {"kubEnv", "githubProject", "XGitHubProject", "widget"}
\* names of the resources referred to
RespNames == <<"a", "b">>
\* longest list of references or hits for one schema
MaxRespRefs == 2
RespRefLists ==
    {q \in {SubSeq(RespNames, i, j) : i \in 1..Len(RespNames), j \in 0..Len(RespNames)} :
        Len(q) <= MaxRespRefs}

\* {}
EmptyDict == [k \in {} |-> k]
\* d.get(key, default)
dict_get(d, key, default) == IF key \in DOMAIN d THEN d[key] ELSE default
\* d[key] = value
dict_set(d, key, value) == [k \in DOMAIN d \cup {key} |-> IF k = key THEN value ELSE d[k]]

\* a reference of context["references"] or of the reverse discovery
RespRef(n) == [name |-> n, namespace |-> "default", kind |-> "XApp"]

\* SchemaRegistry.schemas, the entries of the schemas above
schemas ==
    [XKubEnv |-> [api_version |-> "platform.kubecore.io/v1alpha1", kind |-> "XKubEnv"],
     XGitHubProject |-> [api_version |-> "github.platform.kubecore.io/v1alpha1",
                         kind |-> "XGitHubProject"]]

create_kubenv_summary_for_app(ref) ==
    [environmentType |-> "dev", resources |-> "small", qualityGates |-> "security-scan"]

create_project_summary_for_app(ref) ==
    [repository |-> dict_get(ref, "name", "unknown"), visibility |-> "private",
     cicdEnabled |-> "True"]

create_generic_summary(ref) ==
    [name |-> dict_get(ref, "name", "unknown"), status |-> "available"]

create_reverse_discovered_summary(ref) ==
    [name |-> dict_get(ref, "name", "unknown"), kind |-> dict_get(ref, "kind", "unknown"),
     status |-> "discovered", discoveredBy |-> "reverse-lookup"]

\* the instance each loop of this section appends for a reference
ref_instance(ref, summary) ==
    [name |-> dict_get(ref, "name", "unknown"),
     namespace |-> dict_get(ref, "namespace", "default"),
     summary |-> summary]

\* the "metadata" every block is stored with
block_metadata(schema_info, path, schema_type) ==
    [apiVersion |-> schema_info.api_version, kind |-> schema_info.kind,
     accessible |-> "True", relationshipPath |-> <<path, schema_type>>]

\* _process_schema_for_app: nothing for a schema the registry does not know
process_schema_for_app(available, schema_type, refs) ==
    LET actual_schema_name == map_requested_to_actual_schema(schema_type)
        summary(ref) == IF schema_type = "kubEnv" THEN create_kubenv_summary_for_app(ref)
                        ELSE IF schema_type = "githubProject"
                             THEN create_project_summary_for_app(ref)
                             ELSE create_generic_summary(ref)
    IN  IF actual_schema_name \notin DOMAIN schemas THEN available
        ELSE dict_set(available, schema_type,
                 [metadata |-> block_metadata(schemas[actual_schema_name], "app", schema_type),
                  instances |-> [i \in 1..Len(refs) |->
                                    ref_instance(RespRef(refs[i]), summary(RespRef(refs[i])))]])

\* _process_schema_generic
process_schema_generic(available, schema_type, refs) ==
    LET actual_schema_name == map_requested_to_actual_schema(schema_type)
    IN  IF actual_schema_name \notin DOMAIN schemas THEN available
        ELSE dict_set(available, schema_type,
                 [metadata |-> block_metadata(schemas[actual_schema_name], "generic",
                                              schema_type),
                  instances |-> [i \in 1..Len(refs) |->
                                    ref_instance(RespRef(refs[i]),
                                                 create_generic_summary(RespRef(refs[i])))]])

\* a variant of _process_discovered_schema that stores no relationshipPath
discovered_without_path(available, schema_type, refs) ==
    LET actual_schema_name == map_requested_to_actual_schema(schema_type)
    IN  IF actual_schema_name \notin DOMAIN schemas THEN available
        ELSE dict_set(available, schema_type,
                 [metadata |-> [apiVersion |-> schemas[actual_schema_name].api_version,
                                kind |-> schemas[actual_schema_name].kind,
                                accessible |-> "True", discoveryMethod |-> "reverse"],
                  instances |-> [i \in 1..Len(refs) |->
                                    ref_instance(RespRef(refs[i]),
                                        create_reverse_discovered_summary(RespRef(refs[i])))]])

\* _process_discovered_schema: the block replaces the one stored before
process_discovered_schema(available, schema_type, refs) ==
    LET actual_schema_name == map_requested_to_actual_schema(schema_type)
    IN  IF actual_schema_name \notin DOMAIN schemas THEN available
        ELSE dict_set(available, schema_type,
                 [metadata |-> dict_set(block_metadata(schemas[actual_schema_name], "reverse",
                                                       schema_type),
                                        "discoveryMethod", "reverse"),
                  instances |-> [i \in 1..Len(refs) |->
                                    ref_instance(RespRef(refs[i]),
                                        create_reverse_discovered_summary(RespRef(refs[i])))]])

\* the instance _process_transitive_schema builds for a discovered resource
transitive_instance(n) ==
    [name |-> n, namespace |-> "default",
     summary |-> [discoveryHops |-> "2", discoveryMethod |-> "transitive_2",
                  relationshipChain |-> "chain"]]

\* _process_transitive_schema on the stored blocks: new instances join a block
\* that exists and mark it hybrid, a block that does not exist is created
store_transitive_schema(available, schema_type, hits) ==
    LET actual_schema_name == map_requested_to_actual_schema(schema_type)
        instances == [i \in 1..Len(hits) |-> transitive_instance(hits[i])]
    IN  IF actual_schema_name \notin DOMAIN schemas THEN available
        ELSE IF schema_type \in DOMAIN available
        THEN LET existing_instances == available[schema_type].instances
                 existing_names == {<<existing_instances[i].name,
                                      existing_instances[i].namespace>> :
                                        i \in 1..Len(existing_instances)}
                 new_instances ==
                     SelectSeq(instances,
                               LAMBDA inst : <<inst.name, inst.namespace>> \notin existing_names)
             IN  IF new_instances # << >>
                 THEN dict_set(available, schema_type,
                          [metadata |-> dict_set(available[schema_type].metadata,
                                                 "discoveryMethod", "hybrid"),
                           instances |-> existing_instances \o new_instances])
                 ELSE available
        ELSE dict_set(available, schema_type,
                 [metadata |-> dict_set(block_metadata(schemas[actual_schema_name],
                                                       "transitive", schema_type),
                                        "discoveryMethod", "transitive"),
                  instances |-> instances])

\* the summary keys _filter_instance_for_resource_type keeps for a requestor
\* kind that has a filter
summary_keys(resource_type) ==
    CASE resource_type = "XApp" ->
             {"environmentType", "resources", "environmentConfig", "qualityGates",
              "repository", "cicdEnabled"}
      [] resource_type = "XKubeSystem" ->
             {"version", "region", "nodeCount", "status", "systemComponents", "capacity"}
      [] resource_type = "XKubEnv" ->
             {"environmentType", "resources", "qualityGates", "capacity", "systemComponents"}

\* _filter_instance_for_resource_type
filter_instance_for_resource_type(instance, resource_type) ==
    IF DOMAIN instance = {} THEN instance
    ELSE LET summary == dict_get(instance, "summary", EmptyDict)
         IN  [name |-> dict_get(instance, "name", "unknown"),
              namespace |-> dict_get(instance, "namespace", "default"),
              summary |-> IF resource_type \in {"XApp", "XKubeSystem", "XKubEnv"}
                          THEN [k \in DOMAIN summary \cap summary_keys(resource_type) |->
                                   summary[k]]
                          ELSE summary]

\* filter_schema_for_resource_type: an instance that is empty after the filter
\* is left out
filter_schema_for_resource_type(schema, resource_type) ==
    IF DOMAIN schema = {} THEN schema
    ELSE LET instances == dict_get(schema, "instances", << >>)
             filtered == [i \in 1..Len(instances) |->
                            filter_instance_for_resource_type(instances[i], resource_type)]
         IN  [metadata |-> dict_get(schema, "metadata", EmptyDict),
              instances |-> SelectSeq(filtered, LAMBDA inst : DOMAIN inst # {})]

\* _filter_schemas_for_resource_type: a schema that is empty after the filter
\* is left out
filter_schemas_for_resource_type(available, resource_type) ==
    LET kept == {s \in DOMAIN available :
                    DOMAIN filter_schema_for_resource_type(available[s], resource_type) # {}}
    IN  [s \in kept |-> filter_schema_for_resource_type(available[s], resource_type)]

\* _generate_insights_for_response: the three lists are there, empty if the
\* context has none
generate_insights_for_response(platform_context) ==
    LET base_insights == dict_get(platform_context, "insights", EmptyDict)
        defaults == {"recommendations", "suggestedReferences", "validationRules"}
    IN  [k \in DOMAIN base_insights \cup defaults |->
            IF k \in defaults /\ dict_get(base_insights, k, << >>) = << >>
            THEN << >> ELSE base_insights[k]]

\* generate_response
generate_response(platform_context, resource_type) ==
    [apiVersion |-> "context.fn.kubecore.io/v1beta1",
     kind |-> "Output",
     spec |->
       [platformContext |->
          [requestor |-> dict_get(platform_context, "requestor",
                                  [type |-> resource_type, name |-> "unknown",
                                   namespace |-> "default"]),
           availableSchemas |->
               filter_schemas_for_resource_type(
                   dict_get(platform_context, "availableSchemas", EmptyDict), resource_type),
           relationships |-> dict_get(platform_context, "relationships", EmptyDict),
           insights |-> generate_insights_for_response(platform_context)]]]

\* _validate_instance_structure
validate_instance_structure(instance) ==
    {"name", "namespace", "summary"} \subseteq DOMAIN instance

\* _validate_schema_structure
validate_schema_structure(schema_data) ==
    /\ {"metadata", "instances"} \subseteq DOMAIN schema_data
    /\ {"apiVersion", "kind", "accessible", "relationshipPath"}
           \subseteq DOMAIN schema_data.metadata
    /\ \A i \in 1..Len(schema_data.instances) :
           validate_instance_structure(schema_data.instances[i])

\* validate_response_format; the isinstance tests pass on every value of this
\* section, a dict or a list wherever one is tested for
validate_response_format(resp) ==
    /\ dict_get(resp, "apiVersion", "None") = "context.fn.kubecore.io/v1beta1"
    /\ dict_get(resp, "kind", "None") = "Output"
    /\ LET platform_context ==
               dict_get(dict_get(resp, "spec", EmptyDict), "platformContext", EmptyDict)
       IN  /\ {"requestor", "availableSchemas", "relationships", "insights"}
                  \subseteq DOMAIN platform_context
           /\ {"type", "name", "namespace"} \subseteq DOMAIN platform_context.requestor
           /\ \A s \in DOMAIN platform_context.availableSchemas :
                  validate_schema_structure(platform_context.availableSchemas[s])

RespIdle ==
    /\ resp_type = "none"
    /\ resp_context = EmptyDict
    /\ resp_pc = "idle"
    /\ response = EmptyDict
    /\ resp_valid = FALSE

\* _process_app_query or _process_generic_query has built the platform context
\* of a query, no schema in it yet; the two relationships the XApp path adds
\* before it returns are there from the start
RespStart ==
    /\ resp_type \in RespTypes
    /\ resp_context = [requestor |-> [type |-> resp_type, name |-> "unknown",
                                      namespace |-> "default"],
                       availableSchemas |-> EmptyDict,
                       relationships |->
                           [direct |-> IF resp_type = "XApp"
                                       THEN <<"kubEnv", "githubProject">> ELSE << >>],
                       insights |-> EmptyDict]
    /\ resp_pc = "forward"
    /\ response = EmptyDict
    /\ resp_valid = FALSE

\* _process_app_query: a requested schema whose kind is accessible to XApp
ProcessSchemaForApp(schema_type, refs) ==
    /\ resp_pc = "forward"
    /\ resp_type = "XApp"
    /\ map_requested_to_actual_schema(schema_type) \in get_accessible_schemas("XApp")
    /\ schema_type \notin DOMAIN resp_context.availableSchemas
    /\ resp_context' = [resp_context EXCEPT !.availableSchemas =
                            process_schema_for_app(@, schema_type, refs)]
    /\ UNCHANGED <<resp_type, resp_pc, response, resp_valid, coreVars, keyVars, mergeVars,
                   healthVars, lateVars>>

\* _process_generic_query: a requested schema accessible to the requestor
ProcessSchemaGeneric(schema_type, refs) ==
    /\ resp_pc = "forward"
    /\ resp_type # "XApp"
    /\ schema_type \in get_accessible_schemas(resp_type)
    /\ schema_type \notin DOMAIN resp_context.availableSchemas
    /\ resp_context' = [resp_context EXCEPT !.availableSchemas =
                            process_schema_generic(@, schema_type, refs)]
    /\ UNCHANGED <<resp_type, resp_pc, response, resp_valid, coreVars, keyVars, mergeVars,
                   healthVars, lateVars>>

\* _perform_reverse_discovery: the block of one schema with discovered
\* references
ProcessDiscoveredSchema(schema_type, refs) ==
    /\ resp_pc \in {"forward", "reverse"}
    /\ refs # << >>
    /\ resp_pc' = "reverse"
    /\ resp_context' = [resp_context EXCEPT !.availableSchemas =
                            process_discovered_schema(@, schema_type, refs)]
    /\ UNCHANGED <<resp_type, response, resp_valid, coreVars, keyVars, mergeVars,
                   healthVars, lateVars>>

\* _perform_transitive_discovery: the hits of one schema type
ProcessTransitiveSchema(schema_type, hits) ==
    /\ resp_pc \in {"forward", "reverse", "transitive"}
    /\ hits # << >>
    /\ resp_pc' = "transitive"
    /\ resp_context' = [resp_context EXCEPT !.availableSchemas =
                            store_transitive_schema(@, schema_type, hits)]
    /\ UNCHANGED <<resp_type, response, resp_valid, coreVars, keyVars, mergeVars,
                   healthVars, lateVars>>

\* process_query has returned; generate_response
GenerateResponse ==
    /\ resp_pc \in {"forward", "reverse", "transitive"}
    /\ response' = generate_response(resp_context, resp_type)
    /\ resp_pc' = "generated"
    /\ UNCHANGED <<resp_type, resp_context, resp_valid, coreVars, keyVars, mergeVars,
                   healthVars, lateVars>>

ValidateResponseFormat ==
    /\ resp_pc = "generated"
    /\ resp_valid' = validate_response_format(response)
    /\ resp_pc' = "validated"
    /\ UNCHANGED <<resp_type, resp_context, response, coreVars, keyVars, mergeVars,
                   healthVars, lateVars>>

NextResponse ==
    \/ \E s \in RespSchemas, refs \in RespRefLists : ProcessSchemaForApp(s, refs)
    \/ \E s \in RespSchemas, refs \in RespRefLists : ProcessSchemaGeneric(s, refs)
    \/ \E s \in RespSchemas, refs \in RespRefLists : ProcessDiscoveredSchema(s, refs)
    \/ \E s \in RespSchemas, hits \in RespRefLists : ProcessTransitiveSchema(s, hits)
    \/ GenerateResponse
    \/ ValidateResponseFormat

(***************************************************************************)
(* TransitiveDiscoveryEngine: _get_from_intermediate_cache and             *)
(* _put_in_intermediate_cache                                              *)
(***************************************************************************)

InterKeys == {"c1", "c2", "c3", "c4"}
\* the size "len(self._intermediate_cache) > 100" compares with, scaled down
MaxIntermediate == 2
\* the time to live of _get_from_intermediate_cache (300 s), in ticks
InterTtl == 1
\* last tick of the clock
MaxInterClock == 3

\* _cache_timestamps after "self._cache_timestamps[cache_key] = time.time()":
\* a key it holds keeps its place in the dict
stamped(cache_key) ==
    IF \E i \in 1..Len(cache_timestamps) : cache_timestamps[i].key = cache_key
    THEN [i \in 1..Len(cache_timestamps) |->
             IF cache_timestamps[i].key = cache_key
             THEN [key |-> cache_key, time |-> inter_clock] ELSE cache_timestamps[i]]
    ELSE Append(cache_timestamps, [key |-> cache_key, time |-> inter_clock])

\* the key stamped last
newest_stamped(stamps) == stamps[Len(stamps)].key

\* "min(self._cache_timestamps.keys(), key=lambda k: self._cache_timestamps[k])":
\* the first key in dict order among those with the lowest time
oldest_stamped(stamps) ==
    LET low(i) == \A j \in 1..Len(stamps) : stamps[i].time <= stamps[j].time
        first == CHOOSE i \in 1..Len(stamps) : low(i) /\ \A j \in 1..(i - 1) : ~low(j)
    IN  stamps[first].key

InterIdle ==
    /\ inter_cache = << >>
    /\ cache_timestamps = << >>
    /\ inter_clock = 0
    /\ inter_last = [op |-> "none", key |-> "none", removed |-> {}]

InterTick ==
    /\ inter_clock < MaxInterClock
    /\ inter_clock' = inter_clock + 1
    /\ inter_last' = [op |-> "tick", key |-> "none", removed |-> {}]
    /\ UNCHANGED <<inter_cache, cache_timestamps, evalVars, coreVars, keyVars, mergeVars,
                   respVars, healthVars>>

\* _get_from_intermediate_cache: an entry older than the time to live is
\* deleted from both dicts
GetFromIntermediateCache(cache_key) ==
    /\ cache_key \in DOMAIN inter_cache
    /\ LET timestamp == (CHOOSE i \in 1..Len(cache_timestamps) :
                             cache_timestamps[i].key = cache_key)
           expired == inter_clock - cache_timestamps[timestamp].time > InterTtl
       IN  /\ inter_cache' = IF expired
                             THEN [k \in DOMAIN inter_cache \ {cache_key} |-> inter_cache[k]]
                             ELSE inter_cache
           /\ cache_timestamps' = IF expired
                                  THEN SelectSeq(cache_timestamps,
                                                 LAMBDA t : t.key # cache_key)
                                  ELSE cache_timestamps
           /\ inter_last' = [op |-> "get", key |-> cache_key,
                             removed |-> IF expired THEN {cache_key} ELSE {}]
    /\ UNCHANGED <<inter_clock, evalVars, coreVars, keyVars, mergeVars, respVars,
                   healthVars>>

\* _put_in_intermediate_cache: store, stamp, then delete the oldest key when
\* the cache has grown past the limit
PutInIntermediateCache(cache_key, found) ==
    LET stored == [k \in DOMAIN inter_cache \cup {cache_key} |->
                      IF k = cache_key THEN found ELSE inter_cache[k]]
        stamps == stamped(cache_key)
        overflow == Cardinality(DOMAIN stored) > MaxIntermediate
        oldest == oldest_stamped(stamps)
    IN  /\ inter_cache' = IF overflow
                          THEN [k \in DOMAIN stored \ {oldest} |-> stored[k]]
                          ELSE stored
        /\ cache_timestamps' = IF overflow
                               THEN SelectSeq(stamps, LAMBDA t : t.key # oldest)
                               ELSE stamps
        /\ inter_last' = [op |-> "put", key |-> cache_key,
                          removed |-> IF overflow THEN {oldest} ELSE {}]
        /\ UNCHANGED <<inter_clock, evalVars, coreVars, keyVars, mergeVars, respVars,
                       healthVars>>

NextInter ==
    \/ InterTick
    \/ \E k \in InterKeys : GetFromIntermediateCache(k)
    \/ \E k \in InterKeys : PutInIntermediateCache(k, <<k>>)

(***************************************************************************)
(* ResourceResolver._parse_object_reference, on any reference object.      *)
(* None and an absent key are "None"; a name is given with the lower-case  *)
(* words it contains, str(ref_obj) with the reference field names in it.   *)
(***************************************************************************)

\* ref_obj["name"], "" for a reference without a name
RefNames == {"", "gh-main", "project-cluster", "cluster-network", "network-env", "widget"}

\* the words of the inference rules found in name.lower(); "githubProvider"
\* has a capital and is in no lower-case name
words_in_lower(name) ==
    CASE name = "project-cluster" -> {"project", "cluster"}
      [] name = "cluster-network" -> {"cluster", "network"}
      [] name = "network-env" -> {"network", "env"}
      [] OTHER -> {}

ParseInputs ==
    [name : RefNames,
     apiVersion : {"None", "custom.io/v1"},
     kind : {"None", "XCustom"},
     namespace : {"None", "prod"},
     text : {{}, {"kubeNetRef"}},
     default_namespace : {"None", "default"}]

\* the ResourceRef of the reference object, api_version "None" when the
\* function returns None
parse_object_reference(ref_obj) ==
    LET has(field, word) == field \in ref_obj.text \/ word \in words_in_lower(ref_obj.name)
        inferred ==
            CASE has("githubProviderRef", "githubProvider") ->
                     <<"github.platform.kubecore.io/v1alpha1", "XGitHubProvider">>
              [] has("githubProjectRef", "project") ->
                     <<"github.platform.kubecore.io/v1alpha1", "XGitHubProject">>
              [] has("kubeClusterRef", "cluster") ->
                     <<"platform.kubecore.io/v1alpha1", "XKubeCluster">>
              [] has("kubeNetRef", "network") ->
                     <<"network.platform.kubecore.io/v1alpha1", "XKubeNet">>
              [] has("kubenvRef", "env") ->
                     <<"platform.kubecore.io/v1alpha1", "XKubEnv">>
              [] OTHER ->
                     <<IF ref_obj.apiVersion # "None" THEN ref_obj.apiVersion ELSE "v1",
                       IF ref_obj.kind # "None" THEN ref_obj.kind ELSE "ConfigMap">>
        explicit == ref_obj.apiVersion # "None" /\ ref_obj.kind # "None"
    IN  IF ref_obj.name = ""
        THEN [api_version |-> "None", kind |-> "None", name |-> "None", namespace |-> "None"]
        ELSE [api_version |-> IF explicit THEN ref_obj.apiVersion ELSE inferred[1],
              kind |-> IF explicit THEN ref_obj.kind ELSE inferred[2],
              name |-> ref_obj.name,
              namespace |-> IF ref_obj.namespace # "None" THEN ref_obj.namespace
                            ELSE ref_obj.default_namespace]

ParseStart ==
    /\ eval_in \in ParseInputs
    /\ eval_out = "none"
    /\ eval_pc = "start"

ParseObjectReference ==
    /\ eval_pc = "start"
    /\ eval_out' = parse_object_reference(eval_in)
    /\ eval_pc' = "done"
    /\ UNCHANGED <<eval_in, interVars, coreVars, keyVars, mergeVars, respVars, healthVars>>

NextParse == ParseObjectReference

(***************************************************************************)
(* InsightsEngine.generate_insights.  A recommendation is its category and *)
(* what it is about, a validation rule its name, a suggested reference its *)
(* type; the platform context is the schema names it has, the environment  *)
(* types of its kubEnv instances, whether a kubeCluster instance has a     *)
(* version below "1.27.0", and the types of its direct relationships.      *)
(***************************************************************************)

InsightInputs ==
    [resource_type : {"XApp", "XKubeSystem", "XKubEnv", "XKubeCluster"},
     schemas : SUBSET {"kubEnv", "kubeCluster", "qualityGate"},
     env_types : {<< >>, <<"prod">>, <<"prod", "dev">>},
     old_cluster : BOOLEAN,
     direct : SUBSET {"kubEnv", "githubProject"}]

\* a.update(b)
dict_update(a, b) == [k \in DOMAIN a \cup DOMAIN b |-> IF k \in DOMAIN b THEN b[k] ELSE a[k]]

\* a recommendation
Rec(category, about) == [category |-> category, about |-> about]

\* the recommendations of a loop over instances, one per instance that has one
PerInstance(items, rec(_), applies(_)) ==
    LET picked == SelectSeq(items, applies)
    IN  [i \in 1..Len(picked) |-> rec(picked[i])]

\* _generate_app_insights
generate_app_insights(platform_context) ==
    LET env_rec(env_type) == IF env_type = "prod" THEN Rec("reliability", "health-checks")
                             ELSE Rec("development", "debug-mode")
    IN  [suggestedReferences |-> <<"kubEnv", "githubProject">>,
         validationRules |-> <<"image-tag-required", "resource-limits-required">>,
         recommendations |->
             <<Rec("resource-optimization", "memory-requests"),
               Rec("resource-optimization", "cpu-limits"),
               Rec("security", "network-policies"),
               Rec("security", "non-root")>>
             \o (IF "kubEnv" \in platform_context.schemas
                 THEN PerInstance(platform_context.env_types, env_rec,
                                  LAMBDA t : t \in {"prod", "dev"})
                 ELSE << >>)]

\* _generate_kubesystem_insights
generate_kubesystem_insights(platform_context) ==
    [suggestedReferences |-> <<"kubeCluster", "kubEnv">>,
     validationRules |-> <<"system-component-health", "backup-configuration">>,
     recommendations |->
         <<Rec("infrastructure", "autoscaling"), Rec("monitoring", "cluster-monitoring"),
           Rec("security", "rbac"), Rec("security", "pod-security")>>
         \o (IF "kubeCluster" \in platform_context.schemas /\ platform_context.old_cluster
             THEN <<Rec("maintenance", "upgrade")>> ELSE << >>)]

\* _generate_kubenv_insights
generate_kubenv_insights(platform_context) ==
    [suggestedReferences |-> <<"kubeCluster", "qualityGate">>,
     validationRules |-> <<"environment-type-consistency", "resource-limits-defined">>,
     recommendations |->
         <<Rec("configuration", "quotas"), Rec("configuration", "limit-ranges")>>
         \o <<IF "qualityGate" \in platform_context.schemas
              THEN Rec("quality-assurance", "review-gates")
              ELSE Rec("quality-assurance", "configure-gates")>>
         \o <<Rec("monitoring", "environment-monitoring"), Rec("backup", "volumes")>>]

\* _generate_generic_insights
generate_generic_insights(platform_context) ==
    [suggestedReferences |-> << >>,
     validationRules |-> << >>,
     recommendations |-> <<Rec("documentation", "resource-documentation"),
                           Rec("monitoring", "health-checks")>>]

\* _get_expected_relationships
get_expected_relationships(resource_type) ==
    CASE resource_type = "XApp" -> <<"kubEnv", "githubProject">>
      [] resource_type = "XKubeSystem" -> <<"kubeCluster", "kubEnv">>
      [] resource_type = "XKubEnv" -> <<"kubeCluster", "qualityGate">>
      [] resource_type = "XKubeCluster" -> <<"kubeNet", "githubProject">>
      [] resource_type = "XGitHubProject" -> <<"githubProvider">>
      [] OTHER -> << >>

\* _generate_cross_cutting_insights
generate_cross_cutting_insights(platform_context, resource_type) ==
    [suggestedReferences |-> << >>,
     validationRules |-> << >>,
     recommendations |->
         PerInstance(get_expected_relationships(resource_type),
                     LAMBDA expected_rel : Rec("architecture", expected_rel),
                     LAMBDA expected_rel : expected_rel \notin platform_context.direct)
         \o (IF platform_context.schemas = {} THEN <<Rec("context", "no-schemas")>>
             ELSE << >>)
         \o <<Rec("compliance", "naming")>>]

\* the insights of the requestor kind's own rule set
kind_insights(platform_context, resource_type) ==
    CASE resource_type = "XApp" -> generate_app_insights(platform_context)
      [] resource_type = "XKubeSystem" -> generate_kubesystem_insights(platform_context)
      [] resource_type = "XKubEnv" -> generate_kubenv_insights(platform_context)
      [] OTHER -> generate_generic_insights(platform_context)

\* generate_insights: the three empty lists, updated with the kind's insights,
\* updated with the cross-cutting insights
generate_insights(platform_context, resource_type) ==
    dict_update(
        dict_update([suggestedReferences |-> << >>, validationRules |-> << >>,
                     recommendations |-> << >>],
                    kind_insights(platform_context, resource_type)),
        generate_cross_cutting_insights(platform_context, resource_type))

InsightStart ==
    /\ eval_in \in InsightInputs
    /\ eval_out = "none"
    /\ eval_pc = "start"

GenerateInsights ==
    /\ eval_pc = "start"
    /\ eval_out' = generate_insights(eval_in, eval_in.resource_type)
    /\ eval_pc' = "done"
    /\ UNCHANGED <<eval_in, interVars, coreVars, keyVars, mergeVars, respVars, healthVars>>

NextInsights == GenerateInsights

EvalIdle ==
    /\ eval_in = "none"
    /\ eval_out = "none"
    /\ eval_pc = "idle"

LateIdle == InterIdle /\ EvalIdle

HealthIdle ==
    /\ total_api_calls = 0
    /\ failed_api_calls = 0
    /\ health_pending = "none"
    /\ stats_reset = FALSE

ExtraIdle == KeyIdle /\ MergeIdle /\ RespIdle /\ HealthIdle /\ LateIdle

(***************************************************************************)
(* Circuit breakers                                                        *)
(***************************************************************************)

\* kinds given a breaker by _init_circuit_breakers (two of the six are modelled)
BreakerKinds == {"XKubeCluster", "XApp"}

\* TransitiveDiscoveryConfig.circuit_breaker_threshold, scaled down
FailureThreshold == 2

\* TransitiveDiscoveryConfig.circuit_breaker_timeout, in ticks
BreakerTimeout == 2

\* TransitiveDiscoveryConfig.parallel_workers: tasks that may list concurrently
ParallelWorkers == 3

\* last clock value explored
MaxTime == 4

Tasks == 1..ParallelWorkers

NoCall == [kind |-> "none", by |-> "none", issued |-> FALSE, checked |-> FALSE,
           breaker |-> "none"]

\* CircuitBreaker.can_execute: the verdict
can_execute(k) ==
    CASE state[k] = "closed" -> TRUE
      [] state[k] = "open" -> now - last_failure_time[k] > BreakerTimeout
      [] OTHER -> TRUE

\* CircuitBreaker.can_execute: the state it leaves behind
state_after_can_execute(k) ==
    IF state[k] = "open" /\ now - last_failure_time[k] > BreakerTimeout
    THEN "half-open" ELSE state[k]

\* CircuitBreaker.record_success
record_success(k) ==
    /\ failure_count' = [failure_count EXCEPT ![k] = 0]
    /\ state' = [state EXCEPT ![k] = "closed"]
    /\ UNCHANGED last_failure_time

\* CircuitBreaker.record_failure
record_failure(k) ==
    /\ failure_count' = [failure_count EXCEPT ![k] = @ + 1]
    /\ last_failure_time' = [last_failure_time EXCEPT ![k] = now]
    /\ state' = [state EXCEPT ![k] =
                   IF failure_count[k] + 1 >= FailureThreshold THEN "open" ELSE @]

BreakerStart ==
    /\ now = 0
    /\ state = [k \in BreakerKinds |-> "closed"]
    /\ failure_count = [k \in BreakerKinds |-> 0]
    /\ last_failure_time = [k \in BreakerKinds |-> 0]
    /\ taskPc = [t \in Tasks |-> "idle"]
    /\ taskKind = [t \in Tasks |-> "none"]
    /\ taskTrial = [t \in Tasks |-> FALSE]
    /\ lastCall = NoCall
    /\ hConsec = [k \in BreakerKinds |-> 0]
    /\ hTripped = [k \in BreakerKinds |-> FALSE]
    /\ hLastFail = [k \in BreakerKinds |-> 0]

InitBreaker == BreakerStart /\ WalkIdle /\ QueryIdle /\ ClientIdle /\ GateIdle /\ RcIdle
    /\ ExtraIdle

\* the clock advances; an obligation not to list ends once the cooldown has
\* elapsed since the last recorded failure
Tick ==
    /\ now < MaxTime
    /\ now' = now + 1
    /\ hTripped' = [k \in BreakerKinds |->
                      hTripped[k] /\ ~(now + 1 - hLastFail[k] > BreakerTimeout)]
    /\ UNCHANGED <<state, failure_count, last_failure_time, taskPc, taskKind,
                   taskTrial, lastCall, hConsec, hLastFail>>
    /\ UNCHANGED <<walkVars, queryVars, clientVars, gateVars, rcVars, extraVars>>

\* _search_resources_with_ref up to the await of list_resources: the breaker is
\* consulted and, when it refuses, the search returns [] without listing
SearchResourcesWithRef(t, k) ==
    /\ taskPc[t] = "idle"
    /\ state' = [state EXCEPT ![k] = state_after_can_execute(k)]
    /\ lastCall' = [kind |-> k, by |-> "transitive", issued |-> can_execute(k),
                    checked |-> TRUE, breaker |-> state_after_can_execute(k)]
    /\ IF can_execute(k)
       THEN /\ taskPc' = [taskPc EXCEPT ![t] = "listing"]
            /\ taskKind' = [taskKind EXCEPT ![t] = k]
            /\ taskTrial' = [taskTrial EXCEPT ![t] =
                               state_after_can_execute(k) = "half-open"]
       ELSE UNCHANGED <<taskPc, taskKind, taskTrial>>
    /\ UNCHANGED <<now, failure_count, last_failure_time, hConsec, hTripped, hLastFail>>
    /\ UNCHANGED <<walkVars, queryVars, clientVars, gateVars, rcVars, extraVars>>

\* list_resources returned: the items are filtered and success is recorded
ListSucceeds(t) ==
    /\ taskPc[t] = "listing"
    /\ record_success(taskKind[t])
    /\ hConsec' = [hConsec EXCEPT ![taskKind[t]] = 0]
    /\ taskPc' = [taskPc EXCEPT ![t] = "idle"]
    /\ taskKind' = [taskKind EXCEPT ![t] = "none"]
    /\ taskTrial' = [taskTrial EXCEPT ![t] = FALSE]
    /\ UNCHANGED <<now, lastCall, hTripped, hLastFail>>
    /\ UNCHANGED <<walkVars, queryVars, clientVars, gateVars, rcVars, extraVars>>

\* list_resources raised: the except branch records the failure
ListFails(t) ==
    /\ taskPc[t] = "listing"
    /\ record_failure(taskKind[t])
    /\ hConsec' = [hConsec EXCEPT ![taskKind[t]] = @ + 1]
    /\ hLastFail' = [hLastFail EXCEPT ![taskKind[t]] = now]
    /\ hTripped' = [hTripped EXCEPT ![taskKind[t]] =
                      @ \/ hConsec[taskKind[t]] + 1 >= FailureThreshold]
    /\ taskPc' = [taskPc EXCEPT ![t] = "idle"]
    /\ taskKind' = [taskKind EXCEPT ![t] = "none"]
    /\ taskTrial' = [taskTrial EXCEPT ![t] = FALSE]
    /\ UNCHANGED <<now, lastCall>>
    /\ UNCHANGED <<walkVars, queryVars, clientVars, gateVars, rcVars, extraVars>>

\* the hop's wait_for deadline fired: the task is cancelled at its await and
\* records nothing (CancelledError is not an Exception)
ListCancelled(t) ==
    /\ taskPc[t] = "listing"
    /\ taskPc' = [taskPc EXCEPT ![t] = "idle"]
    /\ taskKind' = [taskKind EXCEPT ![t] = "none"]
    /\ taskTrial' = [taskTrial EXCEPT ![t] = FALSE]
    /\ UNCHANGED <<now, state, failure_count, last_failure_time, lastCall,
                   hConsec, hTripped, hLastFail>>
    /\ UNCHANGED <<walkVars, queryVars, clientVars, gateVars, rcVars, extraVars>>

\* QueryProcessor._search_for_reverse_refs: lists the kind straight away; it
\* neither consults nor updates a breaker
SearchForReverseRefs(k) ==
    /\ lastCall' = [kind |-> k, by |-> "reverse", issued |-> TRUE,
                    checked |-> FALSE, breaker |-> state[k]]
    /\ UNCHANGED <<now, state, failure_count, last_failure_time, taskPc, taskKind,
                   taskTrial, hConsec, hTripped, hLastFail>>
    /\ UNCHANGED <<walkVars, queryVars, clientVars, gateVars, rcVars, extraVars>>

NextBreaker ==
    \/ Tick
    \/ \E t \in Tasks, k \in BreakerKinds : SearchResourcesWithRef(t, k)
    \/ \E t \in Tasks : ListSucceeds(t)
    \/ \E t \in Tasks : ListFails(t)
    \/ \E t \in Tasks : ListCancelled(t)
    \/ \E k \in BreakerKinds : SearchForReverseRefs(k)

SpecBreaker == InitBreaker /\ [][NextBreaker]_vars

InitWalk == WalkStart /\ BreakerStart /\ QueryIdle /\ ClientIdle /\ GateIdle /\ RcIdle
    /\ ExtraIdle

SpecWalk == InitWalk /\ [][NextWalk]_vars

InitQuery == QueryStart /\ BreakerStart /\ WalkIdle /\ ClientIdle /\ GateIdle /\ RcIdle
    /\ ExtraIdle

SpecQuery == InitQuery /\ [][NextQuery]_vars

InitClient == ClientStart /\ BreakerStart /\ WalkIdle /\ QueryIdle /\ GateIdle /\ RcIdle
    /\ ExtraIdle

SpecClient == InitClient /\ [][NextClient]_vars

InitGate == GateIdle /\ BreakerStart /\ WalkIdle /\ QueryIdle /\ ClientIdle /\ RcIdle
    /\ ExtraIdle

SpecGate == InitGate /\ [][NextGate]_vars

InitCache == RcIdle /\ BreakerStart /\ WalkIdle /\ QueryIdle /\ ClientIdle /\ GateIdle
    /\ ExtraIdle

SpecCache == InitCache /\ [][NextCache]_vars

SpecServe == InitCache /\ [][NextServe]_vars

InitKey == KeyStart /\ BreakerStart /\ WalkIdle /\ QueryIdle /\ ClientIdle /\ GateIdle /\ RcIdle
    /\ MergeIdle /\ RespIdle /\ HealthIdle /\ LateIdle

SpecKey == InitKey /\ [][NextKey]_vars

InitMerge == MergeStart /\ BreakerStart /\ WalkIdle /\ QueryIdle /\ ClientIdle /\ GateIdle /\ RcIdle
    /\ KeyIdle /\ RespIdle /\ HealthIdle /\ LateIdle

SpecMerge == InitMerge /\ [][NextMerge]_vars

InitResponse == RespStart /\ BreakerStart /\ WalkIdle /\ QueryIdle /\ ClientIdle /\ GateIdle
    /\ RcIdle /\ KeyIdle /\ MergeIdle /\ HealthIdle /\ LateIdle

SpecResponse == InitResponse /\ [][NextResponse]_vars

(***************************************************************************)
(* TransitiveDiscoveryEngine: the performance counters, is_healthy and     *)
(* reset_performance_stats, on an engine with circuit_breaker_enabled      *)
(* (the default) whose searches run one at a time                          *)
(***************************************************************************)

\* searches counted between two resets
MaxApiCalls == 4

\* the breakers is_healthy counts as open
open_breakers == Cardinality({k \in BreakerKinds : state[k] = "open"})

\* is_healthy
is_healthy ==
    IF total_api_calls = 0 THEN TRUE
    ELSE IF 2 * (total_api_calls - failed_api_calls) < total_api_calls THEN FALSE
    ELSE IF 2 * open_breakers > Cardinality(BreakerKinds) THEN FALSE
    ELSE TRUE

\* a new engine, all counters 0 and all breakers closed
InitHealth == HealthIdle /\ BreakerStart /\ WalkIdle /\ QueryIdle /\ ClientIdle /\ GateIdle
    /\ RcIdle /\ KeyIdle /\ MergeIdle /\ RespIdle /\ LateIdle

\* _search_resources_with_ref up to the await of list_resources: the breaker is
\* consulted, and the call is counted when the breaker lets it through
CountedSearch(k) ==
    /\ health_pending = "none"
    /\ total_api_calls < MaxApiCalls
    /\ state' = [state EXCEPT ![k] = state_after_can_execute(k)]
    /\ IF can_execute(k)
       THEN /\ total_api_calls' = total_api_calls + 1
            /\ health_pending' = k
            /\ stats_reset' = FALSE
       ELSE UNCHANGED <<total_api_calls, health_pending, stats_reset>>
    /\ UNCHANGED <<failed_api_calls, now, failure_count, last_failure_time, taskPc,
                   taskKind, taskTrial, lastCall, hConsec, hTripped, hLastFail>>
    /\ UNCHANGED <<walkVars, queryVars, clientVars, gateVars, rcVars, keyVars, mergeVars,
                   respVars, lateVars>>

\* list_resources returned
CountedSuccess ==
    /\ health_pending # "none"
    /\ record_success(health_pending)
    /\ health_pending' = "none"
    /\ UNCHANGED <<total_api_calls, failed_api_calls, stats_reset, now, taskPc, taskKind,
                   taskTrial, lastCall, hConsec, hTripped, hLastFail>>
    /\ UNCHANGED <<walkVars, queryVars, clientVars, gateVars, rcVars, keyVars, mergeVars,
                   respVars, lateVars>>

\* list_resources raised: the except branch counts the failure
CountedFailure ==
    /\ health_pending # "none"
    /\ failed_api_calls' = failed_api_calls + 1
    /\ record_failure(health_pending)
    /\ health_pending' = "none"
    /\ stats_reset' = FALSE
    /\ UNCHANGED <<total_api_calls, now, taskPc, taskKind, taskTrial, lastCall, hConsec,
                   hTripped, hLastFail>>
    /\ UNCHANGED <<walkVars, queryVars, clientVars, gateVars, rcVars, keyVars, mergeVars,
                   respVars, lateVars>>

\* reset_performance_stats: the counters, never the breakers
ResetPerformanceStats ==
    /\ total_api_calls' = 0
    /\ failed_api_calls' = 0
    /\ stats_reset' = TRUE
    /\ UNCHANGED <<health_pending, coreVars, keyVars, mergeVars, respVars, lateVars>>

NextHealth ==
    \/ Tick
    \/ \E k \in BreakerKinds : CountedSearch(k)
    \/ CountedSuccess
    \/ CountedFailure
    \/ ResetPerformanceStats

SpecHealth == InitHealth /\ [][NextHealth]_vars

\* a new engine, its intermediate cache empty
InitInter == InterIdle /\ EvalIdle /\ BreakerStart /\ WalkIdle /\ QueryIdle /\ ClientIdle
    /\ GateIdle /\ RcIdle /\ KeyIdle /\ MergeIdle /\ RespIdle /\ HealthIdle

SpecInter == InitInter /\ [][NextInter]_vars

InitParse == ParseStart /\ InterIdle /\ BreakerStart /\ WalkIdle /\ QueryIdle /\ ClientIdle
    /\ GateIdle /\ RcIdle /\ KeyIdle /\ MergeIdle /\ RespIdle /\ HealthIdle

SpecParse == InitParse /\ [][NextParse]_vars

InitInsights == InsightStart /\ InterIdle /\ BreakerStart /\ WalkIdle /\ QueryIdle
    /\ ClientIdle /\ GateIdle /\ RcIdle /\ KeyIdle /\ MergeIdle /\ RespIdle /\ HealthIdle

SpecInsights == InitInsights /\ [][NextInsights]_vars

InitRun == RunStart /\ InterIdle /\ BreakerStart /\ WalkIdle /\ ClientIdle /\ GateIdle
    /\ RcIdle /\ KeyIdle /\ MergeIdle /\ RespIdle /\ HealthIdle

SpecRun == InitRun /\ [][NextRun]_vars


(***************************************************************************)
(* Claims about the circuit breakers                                       *)
(***************************************************************************)

\* C1: once FailureThreshold consecutive List failures have been recorded for a
\* kind, the engine issues no further List on that kind until the cooldown has
\* elapsed since the last recorded failure.  Stated over the engine's own
\* searches: a search that issues a List finds no pending obligation.
C1_BreakerLaw ==
    [][\A t \in Tasks, k \in BreakerKinds :
          (taskPc[t] = "idle" /\ taskPc'[t] = "listing" /\ taskKind'[t] = k)
              => ~(hTripped[k] /\ now - hLastFail[k] =< BreakerTimeout)]_vars

\* C2: every List issued during discovery, transitive or reverse, is preceded
\* by a check of the kind's breaker, and none is issued for an open breaker.
C2_ListBehindBreaker ==
    lastCall.issued => (lastCall.checked /\ lastCall.breaker # "open")

\* C3: a breaker changes state only closed -> open after FailureThreshold
\* consecutive failures, open -> half-open after the cooldown, half-open ->
\* closed on a recorded success, half-open -> open on a recorded failure.
C3_LegalTransitions ==
    [][\A k \in BreakerKinds :
          state'[k] # state[k] =>
              \/ /\ state[k] = "closed" /\ state'[k] = "open"
                 /\ hConsec'[k] >= FailureThreshold
              \/ /\ state[k] = "open" /\ state'[k] = "half-open"
                 /\ now - hLastFail[k] > BreakerTimeout
              \/ /\ state[k] = "half-open" /\ state'[k] = "closed"
                 /\ hConsec'[k] = 0
              \/ /\ state[k] = "half-open" /\ state'[k] = "open"
                 /\ hConsec'[k] = hConsec[k] + 1]_vars

\* C4: while a breaker is half-open at most one trial List on its kind is in
\* flight; further calls are refused until the trial's outcome is recorded.
C4_OneTrial ==
    \A k \in BreakerKinds :
        state[k] = "half-open" =>
            Cardinality({t \in Tasks : taskPc[t] = "listing" /\ taskKind[t] = k
                                        /\ taskTrial[t]}) =< 1

(***************************************************************************)
(* Claims about the forward walk                                           *)
(***************************************************************************)

\* C7: whatever the seed, the cluster and the initial cache, the walk returns
\* at most max_resources resolved resources.
C7_ResolvedWithinMax ==
    pcW = "done" => Cardinality(resolved_resources) =< max_resources

\* C8: no resource whose reference distance from the seed exceeds max_depth is
\* fetched or included in the result.
C8_DepthBounded ==
    \A r \in WalkRefs :
        (getCount[r] > 0 \/ r \in resolved_resources) => r \in Within(max_depth)

\* C10: during one walk a Get is issued at most once for any ResourceRef, also
\* when several resolved resources reference it or its first attempt failed.
C10_GetAtMostOnce ==
    \A r \in WalkRefs : getCount[r] =< 1

\* a ref whose Get failed was queued again by a later resource, popped again,
\* and still has had one Get only
C10_Witness ==
    \E r \in reattempted : r \notin resolved_resources /\ getCount[r] = 1

\* C11: at every point of a forward resolution no ResourceRef is on the active
\* resolution path more than once
C11_PathAcyclic ==
    \A i, j \in 1..Len(resolution_path) :
        i # j => resolution_path[i] # resolution_path[j]

\* the ref whose Get is active closes a reference cycle with a visited ref
C11_Witness ==
    /\ pcW = "get"
    /\ resolution_path = <<current_ref>>
    /\ \E r \in visited \ {current_ref} :
          /\ current_ref \in Range(relationships[r])
          /\ r \in Range(relationships[current_ref])

\* C12: a Get that fails (NotFound, Forbidden, or transient after all retries)
\* only skips its ref: the walk does not fail, and when it returns with the
\* bounds not reached every ref referenced by a resolved ref was resolved or
\* attempted
C12_WalkSurvives ==
    /\ pcW # "failed"
    /\ (pcW = "done" /\ resolved_count < max_resources /\ max_depth >= 1) =>
          \A r \in resolved_resources :
              \A x \in Range(relationships[r]) :
                  get_relationship_type(r, x) => x \in resolved_resources \cup visited

(***************************************************************************)
(* Transitive hits and schema blocks (SpecQuery)                           *)
(***************************************************************************)

\* the hits collected so far, and the reference chain each was found along
AllHits == UNION {Range(discovered_resources[t]) : t \in SchemaTypes}
ChainOf(h) == LET i == CHOOSE j \in 1..Len(Chains) : Chains[j].target_kind = h.kind
              IN  Chains[i].ref_chain

\* C5: a hit found along a chain of k reference fields has hops = k and a
\* relationship path of k+1 refs that starts at the source and ends at the hit
C5_PathLength ==
    \A h \in AllHits :
        /\ h.discovery_hops = Len(ChainOf(h))
        /\ Len(h.relationship_path) = h.discovery_hops + 1
        /\ h.relationship_path[1] = SourceRef
        /\ h.relationship_path[Len(h.relationship_path)].name = h.name

\* C6: along the path of every hit, and from its last element to the hit, the
\* later resource carries the chain's reference field for that hop and the
\* field names the earlier resource
C6_PathEdges ==
    \A h \in AllHits :
        LET full == Append(h.relationship_path, [name |-> h.name, kind |-> h.kind])
        IN  \A j \in 1..Min(Len(full) - 1, Len(ChainOf(h))) :
                resources[full[j + 1].name][ChainOf(h)[j]] = full[j].name

\* C9: in the response every schema block holds at most max_resources_per_type
\* instances, however it was populated
C9_BlockWithinCap ==
    qpc = "done" =>
        \A t \in SchemaTypes : Len(availableSchemas[t].instances) =< MaxPerType

\* chains the query selects: those within max_depth
SelectedChains == {j \in 1..Len(Chains) : Len(Chains[j].ref_chain) <= config_max_depth}

\* every hit a chain returned is in the engine's result and in its schema block
HitsReturned ==
    \A c \in completedHits :
        /\ \E i \in 1..Len(discovered_resources[c[1]]) :
              discovered_resources[c[1]][i].name = c[2]
        /\ \E i \in 1..Len(availableSchemas[c[1]].instances) :
              availableSchemas[c[1]].instances[i].name = c[2]

\* C13 (as stated): when a chain was abandoned (hop timed out, raised or found
\* nothing), every other selected chain of the query is still traversed and
\* its hits are returned
C13_ChainIsolation ==
    (qpc = "done" /\ abandonedChains # {}) =>
        /\ SelectedChains \subseteq startedChains
        /\ HitsReturned

\* C13 (amended): an abandoned chain does not end the loop; every selected
\* chain is traversed unless the early-termination break ends the loop, and
\* the hits the chains returned are in the response
C13_ChainIsolationUnlessBreak ==
    (qpc = "done" /\ enableTransitiveDiscovery) =>
        /\ ~earlyBreak => SelectedChains \subseteq startedChains
        /\ HitsReturned

\* a chain was abandoned and a later chain of the same query returned hits
C13_Witness ==
    /\ qpc = "done"
    /\ ~earlyBreak
    /\ \E i \in abandonedChains : \E j \in startedChains :
          /\ j > i
          /\ \E c \in completedHits : c[1] = kind_to_schema_type(Chains[j].target_kind)

(***************************************************************************)
(* K8sClient requests                                                      *)
(***************************************************************************)

\* C14 (as stated): a request calls the cluster API at most max_retries times
\* before it gives up.
C14_AtMostMaxRetries ==
    \A r \in Reqs : apiCalls[r] <= MaxRetries

\* C14 (amended): a request calls the cluster API at most max_retries + 1
\* times (one attempt and max_retries retries); when the last of them fails
\* with a retried outcome too, the request ends with K8sConnectionError.
C14_AtMostRetriesPlusOne ==
    \A r \in Reqs :
        /\ apiCalls[r] <= MaxRetries + 1
        /\ (apiCalls[r] = MaxRetries + 1 /\ lastAnswer[r] \in Transient /\ reqPc[r] # "called")
              => (reqPc[r] = "done" /\ surfaced[r] = "K8sConnectionError")

C14_Witness ==
    \E r \in Reqs :
        /\ reqPc[r] = "done"
        /\ apiCalls[r] = MaxRetries + 1
        /\ sleeps[r] = MaxRetries
        /\ lastAnswer[r] \in Transient
        /\ surfaced[r] = "K8sConnectionError"

\* C15: once the cluster API has answered an attempt with 401, 403 or 404 the
\* request is over: no backoff sleep, no reconnect and no further attempt
\* follows, and when that answer is the first one the API was called exactly
\* once.
C15_RefusedNotRetried ==
    [][\A r \in Reqs :
          lastAnswer[r] \in {"401", "403", "404"} =>
              /\ reqPc[r] = "done"
              /\ reqPc'[r] = "done"
              /\ apiCalls'[r] = apiCalls[r]
              /\ sleeps'[r] = sleeps[r]
              /\ attempt'[r] = attempt[r]
              /\ (attempt[r] = 0 => apiCalls[r] = 1 /\ sleeps[r] = 0)]_vars

C15_Witness ==
    \E r, q \in Reqs :
        /\ r # q
        /\ lastAnswer[r] = "404"
        /\ apiCalls[r] = 1
        /\ reqPc[r] = "done"
        /\ reqPc[q] = "done"
        /\ apiCalls[q] > 1

\* C16: a request whose last answer was 401 ends with K8sAuthenticationError
\* and one whose last answer was 403 with K8sPermissionError.
C16_TypedErrors ==
    \A r \in Reqs :
        reqPc[r] = "done" =>
            /\ (lastAnswer[r] = "401" => surfaced[r] = "K8sAuthenticationError")
            /\ (lastAnswer[r] = "403" => surfaced[r] = "K8sPermissionError")

\* C17: at most one connect() is in flight at any time.
C17_OneReconnect ==
    Cardinality(Connecting) <= 1

(***************************************************************************)
(* Forward resolver concurrency                                            *)
(***************************************************************************)

\* C18: never more than max_concurrent Get calls of the resolver are in
\* flight, whether resolve_resource was called by a BFS walk or by
\* resolve_parallel.
C18_GetsWithinMaxConcurrent ==
    Cardinality(InFlight) <= MaxConcurrent

C18_Witness ==
    /\ Cardinality(InFlight) = MaxConcurrent
    /\ \E w \in InFlight : wOrigin[w] = "bfs"
    /\ \E w \in InFlight : wOrigin[w] = "parallel"
    /\ \E w \in Workers : wPc[w] = "resolve" /\ wOrigin[w] = "parallel"

(***************************************************************************)
(* Response cache                                                          *)
(***************************************************************************)

\* C19 (as stated): a get(k) made after set(k, v) and before the TTL has
\* elapsed since that set returns v.
C19_GetAfterPut ==
    (/\ rcLast.op = "get"
     /\ lastPut[rcLast.key] # NoPut
     /\ rcClock - lastPut[rcLast.key].time < TtlSeconds)
        => rcLast.result = lastPut[rcLast.key].data

\* C19 (amended): a get(k) made after the latest set(k, v) and before the TTL
\* has elapsed since it returns v, unless the entry was evicted by a set on
\* a full cache or removed by clear() in between.
C19_GetAfterPutUnlessDropped ==
    (/\ rcLast.op = "get"
     /\ lastPut[rcLast.key] # NoPut
     /\ rcClock - lastPut[rcLast.key].time < TtlSeconds
     /\ rcLast.key \notin dropped)
        => rcLast.result = lastPut[rcLast.key].data

C19_Witness ==
    /\ rcLast.op = "get"
    /\ lastPut[rcLast.key] # NoPut
    /\ lastPut[rcLast.key].time > 0
    /\ rcClock - lastPut[rcLast.key].time < TtlSeconds
    /\ rcLast.key \notin dropped
    /\ dropped # {}
    /\ rcLast.result = lastPut[rcLast.key].data

\* C20: a get(k) made after the TTL of k's entry has elapsed returns a miss,
\* and the entry is gone from the cache afterwards.
C20_ExpiredIsMiss ==
    (/\ rcLast.op = "get"
     /\ lastPut[rcLast.key] # NoPut
     /\ rcClock - lastPut[rcLast.key].time > TtlSeconds)
        => (rcLast.result = "miss" /\ rcLast.key \notin DOMAIN context_cache)

C20_Witness ==
    /\ rcLast.op = "get"
    /\ rcLast.found
    /\ lastPut[rcLast.key] # NoPut
    /\ rcClock - lastPut[rcLast.key].time > TtlSeconds
    /\ rcLast.result = "miss"
    /\ rcLast.key \notin DOMAIN context_cache
    /\ DOMAIN context_cache # {}

\* C21: a set() made while the cache holds max_entries entries evicts exactly
\* one of the stored entries, and every stored entry other than the evicted
\* one and the one being written is still there, unchanged.
C21_EvictsExactlyOne ==
    [][(rcLast'.op = "set" /\ Len(cache_order) >= MaxEntries) =>
          /\ Cardinality(rcLast'.evicted) = 1
          /\ rcLast'.evicted \subseteq DOMAIN context_cache
          /\ \A x \in rcLast'.evicted \ {rcLast'.key} : x \notin DOMAIN context_cache'
          /\ \A y \in DOMAIN context_cache \ (rcLast'.evicted \cup {rcLast'.key}) :
                 y \in DOMAIN context_cache' /\ context_cache'[y] = context_cache[y]]_vars

C21_Witness ==
    /\ rcLast.op = "set"
    /\ ~rcLast.found
    /\ Cardinality(rcLast.evicted) = 1
    /\ Cardinality(DOMAIN context_cache) = MaxEntries
    /\ \E y \in DOMAIN context_cache : context_cache[y].hits > 0

C23_KeyDeterministic ==
    \A p, q \in Procs : \A i \in 1..Len(keyOut[p]) : \A j \in 1..Len(keyOut[q]) :
        keyOut[p][i] = keyOut[q][j]

\* C24: after a query has been processed twice in a row, the second response
\* equals the first and the cache counts at least one hit.
C24_SecondFromCache ==
    (rcLast.op = "query" /\ rcLast.found) =>
        (rcLast.result = query_result(rcLast.key) /\ total_hits >= 1)

(***************************************************************************)
(* Schema blocks of a response                                             *)
(***************************************************************************)

\* C25: no block of a finished query holds two instances with the same name
\* (every instance is in the namespace "default").
C25_NoDuplicateInstances ==
    qpc = "done" =>
        \A t \in SchemaTypes :
            \A i, j \in 1..Len(availableSchemas[t].instances) :
                i # j => availableSchemas[t].instances[i].name
                            # availableSchemas[t].instances[j].name

\* C26 (as stated): whenever transitive discovery returns hits for a schema
\* type whose block already exists, the block's discoveryMethod is "hybrid"
\* after the merge.
C26_HybridAfterMerge ==
    (merge_pc = "merged" /\ merge_before.discoveryMethod # "absent") =>
        merge_block.discoveryMethod = "hybrid"

\* C26 (amended): when at least one of the hits is not in the existing block
\* yet, the new hits are appended and the block's discoveryMethod is "hybrid"
\* after the merge; when the block holds all of them already it is left as
\* it was.
C26_HybridWhenNewHits ==
    (merge_pc = "merged" /\ merge_before.discoveryMethod # "absent") =>
        LET before_names == {merge_before.instances[i].name :
                                i \in 1..Len(merge_before.instances)}
            new_hits == {i \in 1..Len(merge_hits) : merge_hits[i].name \notin before_names}
        IN  IF new_hits # {}
            THEN /\ merge_block.discoveryMethod = "hybrid"
                 /\ Len(merge_block.instances)
                       = Len(merge_before.instances) + Cardinality(new_hits)
                 /\ SubSeq(merge_block.instances, 1, Len(merge_before.instances))
                       = merge_before.instances
            ELSE merge_block = merge_before

C26_Witness ==
    /\ merge_pc = "merged"
    /\ merge_before.discoveryMethod = "reverse"
    /\ merge_before.instances # << >>
    /\ merge_block.discoveryMethod = "hybrid"
    /\ Len(merge_block.instances) = Len(merge_before.instances) + 1
    /\ Len(merge_hits) = 2

\* C27: every block's key stands for a kind accessible to the requestor's
\* kind, or the block carries the discoveryMethod "reverse", "transitive" or
\* "hybrid".
C27_AccessibleOrTagged ==
    \A t \in SchemaTypes :
        availableSchemas[t].discoveryMethod # "absent" =>
            \/ map_requested_to_actual_schema(t) \in
                  (CASE requestor.kind = "XGitHubProject" -> {"XGitHubProvider"}
                     [] requestor.kind = "XKubeCluster" ->
                          {"XGitHubProject", "XKubeNet", "XGitHubProvider"})
            \/ availableSchemas[t].discoveryMethod \in {"reverse", "transitive", "hybrid"}

C27_Witness ==
    /\ qpc = "done"
    /\ availableSchemas["XGitHubProvider"].discoveryMethod = "unset"
    /\ availableSchemas["XGitHubProvider"].instances # << >>
    /\ availableSchemas["XApp"].discoveryMethod = "absent"
    /\ \E t \in SchemaTypes : availableSchemas[t].discoveryMethod = "reverse"
    /\ \E t \in SchemaTypes : availableSchemas[t].discoveryMethod = "transitive"

\* C28: with context["transitiveMaxDepth"] = d no chain with more than d
\* reference fields is traversed, and with d = 0 no block holds a transitive
\* hit.
C28_ContextDepthBounds ==
    /\ \A j \in startedChains : Len(Chains[j].ref_chain) <= transitiveMaxDepth
    /\ transitiveMaxDepth = 0 =>
          \A t \in SchemaTypes : \A i \in 1..Len(availableSchemas[t].instances) :
              availableSchemas[t].instances[i].discoveredBy # "transitive"

(***************************************************************************)
(* Claims about the response and the engine's health                       *)
(***************************************************************************)

\* C29: every response generated from a platform context the query processor
\* returned passes validate_response_format, whichever of the provided
\* references, reverse discovery and transitive discovery built its blocks.
C29_ResponseValid ==
    resp_pc = "validated" => resp_valid = TRUE

\* C29 happens: a validated response with a block built from provided
\* references, a block of reverse discovery and a block of transitive
\* discovery, each with instances
C29_Witness ==
    /\ resp_pc = "validated"
    /\ resp_valid = TRUE
    /\ LET blocks == response.spec.platformContext.availableSchemas
           method(s) == dict_get(blocks[s].metadata, "discoveryMethod", "unset")
       IN  \A m \in {"unset", "reverse", "transitive"} :
              \E s \in DOMAIN blocks : method(s) = m /\ blocks[s].instances # << >>

\* C30: in every state of the engine, also after reset_performance_stats,
\* is_healthy is false exactly when the success rate of the counted calls is
\* below 0.5 or more than half of the breakers are open.
C30_HealthReport ==
    is_healthy <=>
        ~(\/ /\ total_api_calls > 0
              /\ 2 * (total_api_calls - failed_api_calls) < total_api_calls
          \/ 2 * Cardinality({k \in BreakerKinds : state[k] = "open"})
                 > Cardinality(BreakerKinds))

(***************************************************************************)
(* Claims of the last group                                                *)
(***************************************************************************)

C35_ExponentialBackoff ==
    \A r \in Reqs :
        /\ \A n \in 1..Len(delays[r]) : delays[r][n] = RetryDelay * 2^(n - 1)
        /\ Len(delays[r]) <= apiCalls[r]
        /\ (reqPc[r] = "done" /\ apiCalls[r] > 0) => Len(delays[r]) = apiCalls[r] - 1

\* C35 happens: a request slept before each of its MaxRetries retries and gave
\* up after the last attempt
C35_Witness ==
    \E r \in Reqs :
        /\ reqPc[r] = "done"
        /\ surfaced[r] = "K8sConnectionError"
        /\ lastAnswer[r] \in Transient
        /\ Len(delays[r]) = MaxRetries

\* C33: after every insertion the intermediate cache holds at most
\* MaxIntermediate entries, and the entry an insertion removes on overflow has
\* the oldest timestamp of all entries, the new one included.
C33_BoundedOldestOut ==
    /\ [](Cardinality(DOMAIN inter_cache) <= MaxIntermediate)
    /\ [][inter_last'.op = "put" =>
             \A k \in inter_last'.removed :
                 \E i \in 1..Len(cache_timestamps) :
                     /\ cache_timestamps[i].key = k
                     /\ cache_timestamps[i].time <= inter_clock
                     /\ \A j \in 1..Len(cache_timestamps) :
                            cache_timestamps[i].time <= cache_timestamps[j].time]_vars

\* C33 happens: an insertion into a full cache removed an entry
C33_Witness ==
    /\ inter_last.op = "put"
    /\ inter_last.removed # {}
    /\ inter_last.key \in DOMAIN inter_cache
    /\ Cardinality(DOMAIN inter_cache) = MaxIntermediate

\* C39: reverse discovery only adds to a response: when it attaches the
\* discovered instances to a schema type that already has a block, every
\* instance of that block is still in the block afterwards.
C39_ReverseOnlyAdds ==
    [][resp_pc' = "reverse" =>
          \A s \in DOMAIN resp_context.availableSchemas :
              /\ s \in DOMAIN resp_context'.availableSchemas
              /\ \A i \in 1..Len(resp_context.availableSchemas[s].instances) :
                     \E j \in 1..Len(resp_context'.availableSchemas[s].instances) :
                         /\ resp_context'.availableSchemas[s].instances[j].name
                                = resp_context.availableSchemas[s].instances[i].name
                         /\ resp_context'.availableSchemas[s].instances[j].namespace
                                = resp_context.availableSchemas[s].instances[i].namespace]_vars

\* C37: an apiVersion or a kind given in a reference object is never replaced
\* by an inferred value; inference fills in only what the object lacks.
C37_ExplicitKept ==
    (eval_pc = "done" /\ eval_in.name # "") =>
        /\ (eval_in.apiVersion # "None" => eval_out.api_version = eval_in.apiVersion)
        /\ (eval_in.kind # "None" => eval_out.kind = eval_in.kind)

\* C34: the insights generated for a requestor kind hold the recommendations,
\* validation rules and suggested references of the kind's own rule set (for
\* XApp the security and resource-optimization recommendations) together
\* with the cross-cutting recommendations.
C34_KindAndCrossCutting ==
    eval_pc = "done" =>
        LET own == kind_insights(eval_in, eval_in.resource_type)
            cross == generate_cross_cutting_insights(eval_in, eval_in.resource_type)
            In(list, whole) == \A i \in 1..Len(list) : \E j \in 1..Len(whole) : whole[j] = list[i]
        IN  /\ In(own.recommendations, eval_out.recommendations)
            /\ In(own.validationRules, eval_out.validationRules)
            /\ In(own.suggestedReferences, eval_out.suggestedReferences)
            /\ In(cross.recommendations, eval_out.recommendations)
            /\ eval_in.resource_type = "XApp" =>
                   \A c \in {"security", "resource-optimization"} :
                       \E j \in 1..Len(eval_out.recommendations) :
                           eval_out.recommendations[j].category = c

\* C36: every hit reported for a chain is a cluster resource whose actual
\* kind is the chain's target kind; a resource of another kind that carries
\* the same reference field is never reported under the target kind.
C36_HitOfTargetKind ==
    \A h \in AllHits : h.name \in Listed /\ ListedKind(h.name) = h.kind

\* C38: a back-reference search result is stored in the intermediate cache
\* only if every candidate kind was listed successfully: the cache never
\* holds (and so never serves) a result that lacks the matches of a kind that
\* was skipped by an open breaker or failed to list.
C38_OnlyCompleteCached ==
    \A cache_key \in DOMAIN intermediate_cache :
        intermediate_cache[cache_key] = complete_result(cache_key)

\* C38 as the code has it: a back-reference search that misses the cache
\* stores what it found under its key, whatever its Lists did, and a search
\* whose key is in the cache returns the stored list and leaves the cache
\* alone.
C38_CachedWhateverFound ==
    [][(qpc = "hop" /\ target_index' = target_index + 1) =>
          /\ CacheKey \in DOMAIN intermediate_cache'
          /\ next_resources' = next_resources \o intermediate_cache'[CacheKey]
          /\ CacheKey \in DOMAIN intermediate_cache =>
                 intermediate_cache' = intermediate_cache]_vars

\* the second chain of an XGitHubProject query has been served, from the
\* cache, the incomplete result that the first chain's search stored
C38_Witness ==
    /\ qpc = "hop"
    /\ chain_index = 2
    /\ hop_index = 0
    /\ target_index = 2
    /\ 1 \in startedChains \ abandonedChains
    /\ <<"githubProjectRef", requestor.name>> \in DOMAIN intermediate_cache
    /\ next_resources = intermediate_cache[<<"githubProjectRef", requestor.name>>]
    /\ next_resources # complete_result(<<"githubProjectRef", requestor.name>>)

\* C31: the response to a query is the same for every order in which the
\* cluster returns the items of a List, as long as no limit cuts a result
\* short (the instances of a block compared as a set, as after a sort).
C31_ListOrderIndependent ==
    \A i, j \in 1..Len(eval_out) :
        (~eval_out[i].limited /\ ~eval_out[j].limited) =>
            \A t \in SchemaTypes :
                Range(eval_out[i].availableSchemas[t]) = Range(eval_out[j].availableSchemas[t])

====
